---------------------------- MODULE Spec2Model ----------------------------
(***************************************************************************)
(* A model of cdkless' LambdaBuilder (src/src/lambda-builder.ts, first     *)
(* variant, lines 1-1230), of the Proxy its constructor returns, of the    *)
(* timers it schedules with setTimeout(.., 0), and of the module-level     *)
(* sharedApi.  One action is one user call (through the Proxy or on the    *)
(* raw target that a chainable setter returns) or one timer callback; the  *)
(* engine is single threaded, so each runs to completion.                  *)
(***************************************************************************)
EXTENDS Integers, Sequences, FiniteSets, TLC

VARIABLES
  builders,    \* Seq of LambdaBuilder objects (the Proxy targets), in creation order
  held,        \* builders whose raw target the caller holds (a setter returned `this`)
  timers,      \* pending setTimeout(() => target.build(), 0) callbacks, FIFO
  sharedApi,   \* module-level `let sharedApi` : 0 (undefined) or an index into apis
  apis,        \* ApiBuilder objects created so far: [scope, routes]
  functions,   \* lambda.Function constructs created so far (handle = index)
  constructs,  \* construct ids present in each scope of the construct tree
  calls,       \* the collaborator calls that succeeded, in order
  ghost,       \* per builder: what the calls made on it returned and counted
  synths,      \* the app.synth() runs so far: what each one found
  sharedLayer, \* module-level `let sharedLayer` : 0 (undefined) or an index into layers
  layers,      \* LayerVersion constructs created so far: [scope]
  defaultSettings, \* module-level `let defaultSettings` of the CdkLess module
  stacks       \* CdkLess stacks constructed by the actions, in creation order

vars == <<builders, held, timers, sharedApi, apis, functions, constructs, calls, ghost, synths,
          sharedLayer, layers, defaultSettings, stacks>>

\* The state of the CdkLess module and of its stacks.
cdkless == <<sharedLayer, layers, defaultSettings, stacks>>

---------------------------------------------------------------------------
\* Bounds of the model.
MaxBuilders == 2
MaxStacks == 2
MaxTimers == 2
MaxFrags == 2
ChainFrags == 3
MaxEnvCalls == 3
\* Counters saturate here ("RunCap or more").
RunCap == 2
\* Manual app.synth() calls.
MaxSynths == 2

Stacks == 1..MaxStacks
Builders == 1..MaxBuilders
\* process.env.STAGE || "" (lambda-builder.ts:101)
Stage == "dev"
Undefined == "undefined"
NoLambda == 0

Handlers == {"src/f", "src/g"}
Names == {"f", "g"}
Paths == {"/x", "/y"}
Arns == {"d1", "d2"}
EnvKeys == {"A", "B"}
EnvVals == {"1", "2", "3"}
IsoDate == "2024-01-01T00:00:00.000Z"
Dates == {Undefined, IsoDate, "yesterday"}

\* JavaScript truthiness of an optional string.
Truthy(x) == x # Undefined /\ x # ""

Min(a, b) == IF a < b THEN a ELSE b
Bump(n) == Min(n + 1, RunCap)

\* handlerPath.split("/").pop() || ""
LastSegment(h) ==
  CASE h = "src/f" -> "f"
    [] h = "src/g" -> "g"
    [] OTHER -> ""

\* camelCaseToKebabCase: a hyphen between [a-z][A-Z], then lower case.
CamelCaseToKebabCase(s) ==
  CASE s = "gH" -> "g-h"
    [] OTHER -> s

\* An assignment in place of the merge: this.environmentVars = variables.
Replace(a, b) == b

\* { ...a, ...b }
Spread(a, b) ==
  [k \in (DOMAIN a) \cup (DOMAIN b) |-> IF k \in DOMAIN b THEN b[k] ELSE a[k]]

\* All maps from a non-empty subset of EnvKeys to EnvVals.
EnvMaps == UNION {[D -> EnvVals] : D \in (SUBSET EnvKeys) \ {{}}}

\* /^\d{4}-\d{2}-\d{2}T\d{2}:\d{2}:\d{2}(\.\d{3})?Z?$/ .test(date)
IsoDateRegexTest(date) == date = IsoDate

\* An entry of a scope of the construct tree.
Node(parentKind, parent, a, tag, idx) ==
  [pk |-> parentKind, p |-> parent, a |-> a, tag |-> tag, i |-> idx]
InStack(s, a, tag, idx) == Node("stack", s, a, tag, idx)

Call(b, op, i, d) == [b |-> b, op |-> op, i |-> i, d |-> d]

\* The field initialisers of the sizing parameters (lambda-builder.ts:88-94).
BuiltIn ==
  [ runtime |-> "nodejs22.x", memorySize |-> 256, timeout |-> 30,
    logRetention |-> "ONE_MONTH", architecture |-> "x86_64" ]

\* An object without properties: {}.
Empty == [k \in {} |-> Undefined]

\* `let defaultSettings = {.., defaultTags: {}}`; the bundling settings are
\* left out.  Tag maps are sets of <<key, value>> pairs.
InitialDefaultSettings == [defaultTags |-> {}]

\* A Lambda layer handle: the shared LayerVersion i, or a layer of the caller's.
SharedLayerHandle(i) == [shared |-> TRUE, id |-> i]
OwnLayer(i) == [shared |-> FALSE, id |-> i]

\* defaultSettings.defaultLambdaOptions || {}
DefaultLambdaOptions ==
  IF "defaultLambdaOptions" \in DOMAIN defaultSettings
  THEN defaultSettings["defaultLambdaOptions"] ELSE Empty

\* options[key] || current  (every value of the model is truthy)
OrElse(options, key, current) ==
  IF key \in DOMAIN options THEN options[key] ELSE current

\* applyDefaultLambdaOptions(): the stack defaults over the field initialisers.
ApplyDefaultLambdaOptions(bd, options) ==
  [bd EXCEPT
     !.runtimeValue = OrElse(options, "runtime", @),
     !.memorySize = OrElse(options, "memorySize", @),
     !.timeoutDuration = OrElse(options, "timeout", @),
     !.logRetentionDays = OrElse(options, "logRetention", @),
     !.architectureValue = OrElse(options, "architecture", @),
     !.environmentVars = IF "environment" \in DOMAIN options
                         THEN Spread(@, options["environment"]) ELSE @]

---------------------------------------------------------------------------
\* The fields of a LambdaBuilder before the constructor's body has run.
FieldInitialisers(s, h) ==
  [ scope |-> s,
    handlerPath |-> h,
    resourceName |-> LastSegment(h),
    method |-> Undefined,
    path |-> Undefined,
    environmentVars |-> [k \in {"STAGE"} |-> Stage],
    isBuilt |-> FALSE,
    isAutoBuilding |-> FALSE,
    lambda |-> NoLambda,
    layers |-> <<>>,
    iamRole |-> Undefined,
    runtimeValue |-> BuiltIn.runtime,
    memorySize |-> BuiltIn.memorySize,
    timeoutDuration |-> BuiltIn.timeout,
    logRetentionDays |-> BuiltIn.logRetention,
    architectureValue |-> BuiltIn.architecture,
    snsConfigs |-> <<>>,
    sqsConfigs |-> <<>>,
    s3Configs |-> <<>>,
    policyConfigs |-> <<>>,
    tableArns |-> <<>>,
    eventBridgeRuleConfigs |-> <<>>,
    mskConfigs |-> <<>>,
    smkConfigs |-> <<>>,
    dynamoStreamsConfigs |-> <<>> ]

\* new LambdaBuilder(props): the fields after the constructor ran.
NewBuilder(s, h) ==
  ApplyDefaultLambdaOptions(FieldInitialisers(s, h), DefaultLambdaOptions)

NewGhost ==
  [ buildReturns |-> {},      \* values returned by build() calls
    getLambdaReturns |-> {},  \* values returned by getLambda() calls
    provisionRuns |-> 0,      \* runs of createNodejsFunction (saturating)
    explicitBuilds |-> 0,     \* build()/getLambda() made by the caller (saturating)
    proxyCalls |-> 0,         \* setter calls made through the Proxy (saturating)
    scheduled |-> 0,          \* timers scheduled (saturating)
    fired |-> 0,              \* timers fired (saturating)
    firedBuilt |-> 0,         \* timers that fired when already built (saturating)
    failed |-> 0,             \* build() calls that threw (saturating)
    envCalls |-> <<>>,        \* arguments of the environment() calls
    addRoleErrors |-> 0,      \* addRole() calls that threw (saturating)
    nested |-> 0,             \* proxy calls made from inside a proxy call (saturating)
    sized |-> Empty,          \* parameter |-> argument of its latest setter call
    firstRoute |-> <<>>,      \* <<method, path>> of the first routing call
    lastRoute |-> <<>> ]      \* <<method, path>> of the latest routing call

Init ==
  /\ builders = <<>>
  /\ held = {}
  /\ timers = <<>>
  /\ sharedApi = 0
  /\ apis = <<>>
  /\ functions = <<>>
  /\ constructs = {}
  /\ calls = <<>>
  /\ ghost = <<>>
  /\ synths = <<>>
  /\ sharedLayer = 0
  /\ layers = <<>>
  /\ defaultSettings = InitialDefaultSettings
  /\ stacks = <<>>

Created == DOMAIN builders

\* CdkLess.lambda(handler): a new builder, handed out as its Proxy.
Lambda(s, h) ==
  /\ builders' = Append(builders, NewBuilder(s, h))
  /\ ghost' = Append(ghost, NewGhost)
  /\ UNCHANGED <<held, timers, sharedApi, apis, functions, constructs, calls, synths, cdkless>>


---------------------------------------------------------------------------
(* build() works on the process state w: the construct tree, the functions, *)
(* the shared API and the call log; w.err is set once a step has thrown,   *)
(* and every later step is then skipped (the exception unwinds build()).   *)

World ==
  [ constructs |-> constructs, functions |-> functions, calls |-> calls,
    sharedApi |-> sharedApi, apis |-> apis, lambda |-> NoLambda, err |-> FALSE ]

\* A throw that also undoes what the build had done so far.
ThrowAndRollBack(w) == [World EXCEPT !.err = TRUE]

Throw(w) == [w EXCEPT !.err = TRUE]

\* A construct tree that accepts a second child of the same id.
AddConstructAnyway(w, node) == [w EXCEPT !.constructs = @ \cup {node}]


\* new Construct(scope, id): throws when the scope already has a child of that id.
AddConstruct(w, node) ==
  IF node \in w.constructs THEN Throw(w)
  ELSE [w EXCEPT !.constructs = @ \cup {node}]

Log(w, call) == IF w.err THEN w ELSE [w EXCEPT !.calls = Append(@, call)]

\* A step of a method body: skipped once an earlier step has thrown.
AddConstructIfOk(w, node) == IF w.err THEN w ELSE AddConstruct(w, node)

\* A createNodejsFunction() that attaches the builder's own layers only.
WithoutSharedLayer(own) == own

\* const layers = [...this.layers]; if (sharedLayer) layers.push(sharedLayer)
WithSharedLayer(own) ==
  IF sharedLayer # 0 THEN Append(own, SharedLayerHandle(sharedLayer)) ELSE own

\* new NodejsFunction(scope, `${resourceName}-function`, {..}) has returned.
FunctionCreated(bd, b, w) ==
  IF w.err THEN w
  ELSE Log([w EXCEPT
              !.functions = Append(@, [b |-> b, scope |-> bd.scope,
                                       name |-> bd.resourceName,
                                       environment |-> bd.environmentVars,
                                       runtime |-> bd.runtimeValue,
                                       memorySize |-> bd.memorySize,
                                       timeout |-> bd.timeoutDuration,
                                       logRetention |-> bd.logRetentionDays,
                                       architecture |-> bd.architectureValue,
                                       role |-> bd.iamRole,
                                       layers |-> WithSharedLayer(bd.layers)]),
              !.lambda = Len(w.functions) + 1],
           Call(b, "provision", 0, bd.resourceName))

\* createNodejsFunction(): the log group first, then the function.
CreateNodejsFunction(bd, b, w) ==
  IF ~Truthy(bd.handlerPath) THEN Throw(w)
  ELSE FunctionCreated(bd, b,
         AddConstructIfOk(
           AddConstruct(w, InStack(bd.scope,
                CamelCaseToKebabCase(bd.resourceName), "log-group", -1)),
           InStack(bd.scope, bd.resourceName, "function", -1)))

\* One iteration of each apply*'s loop; i is the 1-based position, the code's
\* index (indexOf(config), or forEach's index) is i - 1.
ApplySnsTrigger(bd, b, w, i) ==
  Log(AddConstruct(w, InStack(bd.scope, bd.resourceName, "imported-topic", i - 1)),
      Call(b, "sns", i - 1, bd.snsConfigs[i]))

ApplySqsTrigger(bd, b, w, i) ==
  Log(AddConstruct(w, InStack(bd.scope, bd.resourceName, "imported-queue", i - 1)),
      Call(b, "sqs", i - 1, bd.sqsConfigs[i]))

ApplyS3Trigger(bd, b, w, i) ==
  Log(AddConstruct(w, InStack(bd.scope, bd.resourceName, "imported-bucket", i - 1)),
      Call(b, "s3", i - 1, bd.s3Configs[i]))

ApplyPolicy(bd, b, w, i) ==
  Log(w, Call(b, "policy", i - 1, bd.policyConfigs[i]))

ApplyTablePermission(bd, b, w, i) ==
  Log(AddConstruct(w, InStack(bd.scope, bd.resourceName, "imported-table", i - 1)),
      Call(b, "table", i - 1, bd.tableArns[i]))

ApplyEventBridgeRuleTrigger(bd, b, w, i) ==
  Log(AddConstruct(w, InStack(bd.scope, bd.resourceName, "rule", i - 1)),
      Call(b, "rule", i - 1, bd.eventBridgeRuleConfigs[i]))

\* The secret's id carries no index; then the ISO date check; then the source.
CheckStartingPositionDate(config, w) ==
  IF w.err THEN w
  ELSE IF /\ Truthy(config.startingPositionDate)
          /\ config.startingPosition = "AT_TIMESTAMP"
          /\ ~IsoDateRegexTest(config.startingPositionDate)
       THEN Throw(w) ELSE w

ApplyMSKTrigger(bd, b, w, i) ==
  Log(CheckStartingPositionDate(bd.mskConfigs[i],
        AddConstruct(w, InStack(bd.scope, bd.resourceName, "kafka-secret", -1))),
      Call(b, "msk", i - 1, bd.mskConfigs[i].clusterArn))

ApplySMKTrigger(bd, b, w, i) ==
  Log(AddConstruct(w, InStack(bd.scope, bd.resourceName, "kafka-secret", i - 1)),
      Call(b, "smk", i - 1, bd.smkConfigs[i]))

\* this.lambda.addEventSourceMapping(streamArn, ..): a child of the function.
ApplyDynamoStreamsTrigger(bd, b, w, i) ==
  Log(AddConstruct(w, Node("fn", w.lambda, bd.dynamoStreamsConfigs[i], "esm", -1)),
      Call(b, "dynamo", i - 1, bd.dynamoStreamsConfigs[i]))

Configs(kind, bd) ==
  CASE kind = "sns" -> bd.snsConfigs
    [] kind = "sqs" -> bd.sqsConfigs
    [] kind = "s3" -> bd.s3Configs
    [] kind = "policy" -> bd.policyConfigs
    [] kind = "table" -> bd.tableArns
    [] kind = "rule" -> bd.eventBridgeRuleConfigs
    [] kind = "msk" -> bd.mskConfigs
    [] kind = "smk" -> bd.smkConfigs
    [] kind = "dynamo" -> bd.dynamoStreamsConfigs

ApplyOne(kind, bd, b, w, i) ==
  CASE kind = "sns" -> ApplySnsTrigger(bd, b, w, i)
    [] kind = "sqs" -> ApplySqsTrigger(bd, b, w, i)
    [] kind = "s3" -> ApplyS3Trigger(bd, b, w, i)
    [] kind = "policy" -> ApplyPolicy(bd, b, w, i)
    [] kind = "table" -> ApplyTablePermission(bd, b, w, i)
    [] kind = "rule" -> ApplyEventBridgeRuleTrigger(bd, b, w, i)
    [] kind = "msk" -> ApplyMSKTrigger(bd, b, w, i)
    [] kind = "smk" -> ApplySMKTrigger(bd, b, w, i)
    [] kind = "dynamo" -> ApplyDynamoStreamsTrigger(bd, b, w, i)

\* A loop that walks the configurations from the last to the first.
RECURSIVE ForEachBackwards(_, _, _, _, _)
ForEachBackwards(kind, bd, b, w, i) ==
  IF w.err \/ i > Len(Configs(kind, bd)) THEN w
  ELSE ForEachBackwards(kind, bd, b,
         ApplyOne(kind, bd, b, w, Len(Configs(kind, bd)) + 1 - i), i + 1)

\* configs.forEach / for..of, left when an iteration throws.
RECURSIVE ForEach(_, _, _, _, _)
ForEach(kind, bd, b, w, i) ==
  IF w.err \/ i > Len(Configs(kind, bd)) THEN w
  ELSE ForEach(kind, bd, b, ApplyOne(kind, bd, b, w, i), i + 1)

ApplySnsTriggers(bd, b, w) == ForEach("sns", bd, b, w, 1)
ApplySqsTriggers(bd, b, w) == ForEach("sqs", bd, b, w, 1)
ApplyS3Triggers(bd, b, w) == ForEach("s3", bd, b, w, 1)
ApplyPolicies(bd, b, w) == ForEach("policy", bd, b, w, 1)
ApplyTablePermissions(bd, b, w) == ForEach("table", bd, b, w, 1)
ApplyEventBridgeRuleTriggers(bd, b, w) == ForEach("rule", bd, b, w, 1)
ApplyMSKTriggers(bd, b, w) == ForEach("msk", bd, b, w, 1)
ApplySMKTriggers(bd, b, w) == ForEach("smk", bd, b, w, 1)
ApplyDynamoStreamsTriggers(bd, b, w) == ForEach("dynamo", bd, b, w, 1)

\* new ApiBuilder({scope: this.scope, ..}); sharedApi = apiBuilder
NewSharedApi(bd, b, w) ==
  Log([w EXCEPT !.apis = Append(@, [scope |-> bd.scope, routes |-> <<>>]),
                !.sharedApi = Len(w.apis) + 1],
      Call(b, "createApi", bd.scope, "api"))

\* A getOrCreateSharedApi() that does not look at the module-level variable.
AlwaysCreateSharedApi(bd, b, w) == NewSharedApi(bd, b, w)

\* getOrCreateSharedApi(): the module-level sharedApi when set, else a new
\* ApiBuilder in this builder's scope, stored in the module-level variable.
GetOrCreateSharedApi(bd, b, w) ==
  IF w.sharedApi # 0 THEN w ELSE NewSharedApi(bd, b, w)

\* path.startsWith("/") ? path : `/${path}`
NormalizedPath(path) == IF path = "x" THEN "/x" ELSE path

\* ApiBuilder.addRoute on the shared API.
AddRoute(bd, b, w) ==
  Log([w EXCEPT !.apis[w.sharedApi].routes =
           Append(@, [b |-> b, method |-> bd.method,
                      path |-> NormalizedPath(bd.path), lambda |-> w.lambda])],
      Call(b, "route", w.sharedApi, bd.method))

\* The tail of build(): if (this.method && this.path) { .. addRoute(..) }
RouteStep(bd, b, w) ==
  IF w.err \/ ~(Truthy(bd.method) /\ Truthy(bd.path)) THEN w
  ELSE AddRoute(bd, b, GetOrCreateSharedApi(bd, b, w))

\* A build() body that registers the route right after provisioning.
BuildBodyRouteFirst(bd, b) ==
  ApplyDynamoStreamsTriggers(bd, b,
    ApplySMKTriggers(bd, b,
    ApplyMSKTriggers(bd, b,
    ApplyEventBridgeRuleTriggers(bd, b,
    ApplyTablePermissions(bd, b,
    ApplyPolicies(bd, b,
    ApplyS3Triggers(bd, b,
    ApplySqsTriggers(bd, b,
    ApplySnsTriggers(bd, b,
    RouteStep(bd, b,
    CreateNodejsFunction(bd, b, [World EXCEPT !.lambda = bd.lambda])))))))))))

\* A build() body that maps the stream sources before it grants permissions.
BuildBodySourcesFirst(bd, b) ==
  RouteStep(bd, b,
    ApplyEventBridgeRuleTriggers(bd, b,
    ApplyTablePermissions(bd, b,
    ApplyPolicies(bd, b,
    ApplyDynamoStreamsTriggers(bd, b,
    ApplySMKTriggers(bd, b,
    ApplyMSKTriggers(bd, b,
    ApplyS3Triggers(bd, b,
    ApplySqsTriggers(bd, b,
    ApplySnsTriggers(bd, b,
    CreateNodejsFunction(bd, b, [World EXCEPT !.lambda = bd.lambda])))))))))))

\* The body of build() past the isBuilt test: the state it leaves.
BuildBody(bd, b) ==
  RouteStep(bd, b,
    ApplyDynamoStreamsTriggers(bd, b,
    ApplySMKTriggers(bd, b,
    ApplyMSKTriggers(bd, b,
    ApplyEventBridgeRuleTriggers(bd, b,
    ApplyTablePermissions(bd, b,
    ApplyPolicies(bd, b,
    ApplyS3Triggers(bd, b,
    ApplySqsTriggers(bd, b,
    ApplySnsTriggers(bd, b,
    CreateNodejsFunction(bd, b, [World EXCEPT !.lambda = bd.lambda])))))))))))

\* A build() that marks the builder built even when its body threw.
OutcomeAlwaysBuilt(bd, w) ==
  [w |-> w,
   bd |-> [bd EXCEPT !.lambda = w.lambda, !.isBuilt = TRUE],
   ret |-> w.lambda, threw |-> w.err, ran |-> TRUE]

\* What a build() that ran its body leaves and returns.
Outcome(bd, w) ==
  [w |-> w,
   bd |-> [bd EXCEPT !.lambda = w.lambda, !.isBuilt = ~w.err],
   ret |-> w.lambda, threw |-> w.err, ran |-> TRUE]

\* A build() without the isBuilt test.
BuildResultUnguarded(b) == Outcome(builders[b], BuildBody(builders[b], b))

\* build() on builder b: [w, bd, ret, threw, ran].
BuildResult(b) ==
  IF builders[b].isBuilt
  THEN [w |-> World, bd |-> builders[b],
        ret |-> builders[b].lambda, threw |-> FALSE, ran |-> FALSE]
  ELSE Outcome(builders[b], BuildBody(builders[b], b))

---------------------------------------------------------------------------
\* The process state a build() leaves.
Commit(w) ==
  /\ constructs' = w.constructs
  /\ functions' = w.functions
  /\ calls' = w.calls
  /\ sharedApi' = w.sharedApi
  /\ apis' = w.apis

\* The ghost record of a builder after one run r of build().
CountBuild(g, r, explicit) ==
  [g EXCEPT
     !.explicitBuilds = IF explicit THEN Bump(@) ELSE @,
     !.provisionRuns = IF r.ran THEN Bump(@) ELSE @,
     !.failed = IF r.threw THEN Bump(@) ELSE @,
     !.buildReturns = IF r.threw THEN @ ELSE @ \cup {r.ret}]

\* The state after a run r of build() on b; g is b's ghost record after it.
Built(b, r, g) ==
  /\ builders' = [builders EXCEPT ![b] = r.bd]
  /\ Commit(r.w)
  /\ ghost' = [ghost EXCEPT ![b] = g]

\* build(), called by the caller.  The Proxy hands build() straight to the
\* target (prop === "build"), so the call is the same through either object.
BuildCalled(b, r) == Built(b, r, CountBuild(ghost[b], r, TRUE))

Build(b) ==
  /\ b \in Created
  /\ BuildCalled(b, BuildResult(b))
  /\ UNCHANGED <<held, timers, synths, cdkless>>

TimerFired(b, r) ==
  Built(b, r, [CountBuild(ghost[b], r, FALSE) EXCEPT
                 !.fired = Bump(@),
                 !.firedBuilt = IF builders[b].isBuilt THEN Bump(@) ELSE @])

\* The body of build() run on the process state w.
BuildBodyOn(bd, b, w) ==
  RouteStep(bd, b,
    ApplyDynamoStreamsTriggers(bd, b,
    ApplySMKTriggers(bd, b,
    ApplyMSKTriggers(bd, b,
    ApplyEventBridgeRuleTriggers(bd, b,
    ApplyTablePermissions(bd, b,
    ApplyPolicies(bd, b,
    ApplyS3Triggers(bd, b,
    ApplySqsTriggers(bd, b,
    ApplySnsTriggers(bd, b,
    CreateNodejsFunction(bd, b, [w EXCEPT !.lambda = bd.lambda, !.err = FALSE])))))))))))

(* Timer callbacks that preempt one another: when two are pending for        *)
(* different builders that are not built, both builds run in one turn, and   *)
(* the second reads the module-level sharedApi as it was before the first    *)
(* stored its API.                                                           *)
FireTimersInterleaved ==
  /\ timers # <<>>
  /\ IF /\ Len(timers) >= 2 /\ timers[1] # timers[2]
        /\ ~builders[timers[1]].isBuilt /\ ~builders[timers[2]].isBuilt
     THEN LET b1 == timers[1]
              b2 == timers[2]
              r1 == BuildResult(b1)
              r2 == Outcome(builders[b2],
                            BuildBodyOn(builders[b2], b2,
                                        [r1.w EXCEPT !.sharedApi = sharedApi]))
          IN  /\ builders' = [builders EXCEPT ![b1] = r1.bd, ![b2] = r2.bd]
              /\ Commit(r2.w)
              /\ ghost' = [ghost EXCEPT
                             ![b1] = [CountBuild(@, r1, FALSE) EXCEPT !.fired = Bump(@)],
                             ![b2] = [CountBuild(@, r2, FALSE) EXCEPT !.fired = Bump(@)]]
              /\ timers' = Tail(Tail(timers))
     ELSE /\ TimerFired(Head(timers), BuildResult(Head(timers)))
          /\ timers' = Tail(timers)
  /\ UNCHANGED <<held, synths, cdkless>>


\* A timer callback that schedules target.build() again when it threw.
FireTimerRetrying ==
  /\ timers # <<>>
  /\ TimerFired(Head(timers), BuildResult(Head(timers)))
  /\ timers' = IF BuildResult(Head(timers)).threw
               THEN Append(Tail(timers), Head(timers)) ELSE Tail(timers)
  /\ UNCHANGED <<held, synths, cdkless>>


\* A timer callback: () => target.build().
FireTimer ==
  /\ timers # <<>>
  /\ TimerFired(Head(timers), BuildResult(Head(timers)))
  /\ timers' = Tail(timers)
  /\ UNCHANGED <<held, synths, cdkless>>

\* What a timer callback does to the queue; only FireTimer steps do it.
TimerStep == timers # <<>> /\ timers' = Tail(timers)

GetLambdaBuilt(b, r) ==
  Built(b, r, [CountBuild(ghost[b], r, TRUE) EXCEPT
                 !.buildReturns = ghost[b].buildReturns,
                 !.getLambdaReturns = IF r.threw THEN @ ELSE @ \cup {r.bd.lambda}])

\* A getLambda() that returns this.lambda without building.
GetLambdaWithoutBuild(b) ==
  /\ b \in Created
  /\ ghost' = [ghost EXCEPT ![b].getLambdaReturns = @ \cup {builders[b].lambda},
                            ![b].explicitBuilds = Bump(@)]
  /\ UNCHANGED <<builders, held, timers, constructs, functions, calls, sharedApi, apis,
                 synths, cdkless>>


\* getLambda() through the Proxy: build() first when not built, then the
\* original; once built the generic branch runs the original and, its result
\* not being the target, schedules nothing.
GetLambdaProxy(b) ==
  /\ b \in Created
  /\ IF ~builders[b].isBuilt
     THEN GetLambdaBuilt(b, BuildResult(b))
     ELSE /\ ghost' = [ghost EXCEPT ![b].getLambdaReturns = @ \cup {builders[b].lambda}]
          /\ UNCHANGED <<builders, constructs, functions, calls, sharedApi, apis>>
  /\ UNCHANGED <<held, timers, synths, cdkless>>

\* getLambda() on the raw target: return this.lambda.
GetLambdaRaw(b) ==
  /\ b \in held
  /\ ghost' = [ghost EXCEPT ![b].getLambdaReturns = @ \cup {builders[b].lambda}]
  /\ UNCHANGED <<builders, held, timers, constructs, functions, calls, sharedApi, apis, synths, cdkless>>

Vias == {"proxy", "raw"}

\* A wrapper without the isAutoBuilding test.
InterceptsAlways(bd, via) == via = "proxy"

\* Does the Proxy's wrapper take the branch that sets isAutoBuilding?  A call
\* on the raw target meets no wrapper.
Intercepts(bd, via) == via = "proxy" /\ ~bd.isAutoBuilding

\* A wrapper that runs the body and never schedules target.build().
ChainWithoutTimer(b, via, nb, g) ==
  /\ b \in Created
  /\ via = "raw" => b \in held
  /\ builders' = [builders EXCEPT ![b] = nb]
  /\ ghost' = [ghost EXCEPT ![b] =
         [g EXCEPT !.proxyCalls = IF via = "proxy" THEN Bump(@) ELSE @]]
  /\ held' = held \cup {b}
  /\ UNCHANGED <<timers, constructs, functions, calls, sharedApi, apis, synths, cdkless>>

(* A call, made through via, of a chainable setter whose body turns the     *)
(* builder into nb and returns this.                                         *)
(* Through the Proxy (and isAutoBuilding false) the wrapper sets the flag,   *)
(* runs the body, schedules target.build() when the result is the target and *)
(* the builder is not built, and clears the flag; on the raw target only the *)
(* body runs.  g is the builder's ghost record after the body.               *)
Dispatched(b, via, nb, g) ==
  /\ b \in Created
  /\ via = "raw" => b \in held
  /\ LET intercepted == Intercepts(builders[b], via)
         schedule == intercepted /\ ~nb.isBuilt
     IN  /\ schedule => Len(timers) < MaxTimers
         /\ builders' = [builders EXCEPT ![b] =
                IF intercepted THEN [nb EXCEPT !.isAutoBuilding = FALSE] ELSE nb]
         /\ timers' = IF schedule THEN Append(timers, b) ELSE timers
         /\ ghost' = [ghost EXCEPT ![b] =
                [g EXCEPT !.proxyCalls = IF via = "proxy" THEN Bump(@) ELSE @,
                          !.scheduled = IF schedule THEN Bump(@) ELSE @]]
  /\ held' = held \cup {b}
  /\ UNCHANGED <<functions, calls, sharedApi, apis, synths, cdkless>>

\* A wrapper that schedules target.build() whether or not the builder is built.
ChainSchedulingBuilt(b, via, nb, g) ==
  /\ b \in Created
  /\ via = "raw" => b \in held
  /\ Intercepts(builders[b], via) => Len(timers) < MaxTimers
  /\ builders' = [builders EXCEPT ![b] =
         IF Intercepts(builders[b], via) THEN [nb EXCEPT !.isAutoBuilding = FALSE] ELSE nb]
  /\ timers' = IF Intercepts(builders[b], via) THEN Append(timers, b) ELSE timers
  /\ ghost' = [ghost EXCEPT ![b] =
         [g EXCEPT !.proxyCalls = IF via = "proxy" THEN Bump(@) ELSE @,
                   !.scheduled = IF Intercepts(builders[b], via) THEN Bump(@) ELSE @]]
  /\ held' = held \cup {b}
  /\ UNCHANGED <<constructs, functions, calls, sharedApi, apis, synths, cdkless>>

\* A setter that marks the builder as not built, so that it is built again.
ChainResettingBuilt(b, via, nb, g) ==
  /\ Dispatched(b, via, [nb EXCEPT !.isBuilt = FALSE], g)
  /\ UNCHANGED constructs

\* A wrapper that runs target.build() within the call, where the code
\* schedules it.
ChainBuildingAtOnce(b, via, nb, g) ==
  /\ b \in Created
  /\ via = "raw" => b \in held
  /\ IF Intercepts(builders[b], via) /\ ~nb.isBuilt
     THEN /\ Built(b, Outcome(nb, BuildBody(nb, b)),
                   CountBuild([g EXCEPT !.proxyCalls = Bump(@)],
                              Outcome(nb, BuildBody(nb, b)), FALSE))
          /\ held' = held \cup {b}
          /\ UNCHANGED <<timers, synths, cdkless>>
     ELSE Dispatched(b, via, nb, g) /\ UNCHANGED constructs


\* A chainable setter that touches nothing but the builder.
Chain(b, via, nb, g) ==
  /\ Dispatched(b, via, nb, g)
  /\ UNCHANGED constructs

\* A chainable setter that has added the construct node to the scope.
Imported(b, via, nb, node) ==
  /\ Dispatched(b, via, nb, ghost[b])
  /\ constructs' = constructs \cup {node}

\* A wrapper that schedules target.build() before it runs a body that throws.
ThrownAfterScheduling(b, via, g) ==
  /\ b \in Created
  /\ via = "raw" => b \in held
  /\ Len(timers) < MaxTimers
  /\ builders' = [builders EXCEPT ![b].isAutoBuilding =
                    IF Intercepts(builders[b], via) THEN TRUE ELSE @]
  /\ timers' = Append(timers, b)
  /\ ghost' = [ghost EXCEPT ![b] = g]
  /\ UNCHANGED <<held, constructs, functions, calls, sharedApi, apis, synths, cdkless>>

(* A setter whose body throws before it has assigned anything.  Through the  *)
(* Proxy (and isAutoBuilding false) the wrapper has set the flag before the  *)
(* body, and the exception leaves the wrapper before the flag is cleared;    *)
(* nothing is returned and nothing scheduled.  g is the ghost record after.  *)
Thrown(b, via, g) ==
  /\ b \in Created
  /\ via = "raw" => b \in held
  /\ builders' = [builders EXCEPT ![b].isAutoBuilding =
                    IF Intercepts(builders[b], via) THEN TRUE ELSE @]
  /\ ghost' = [ghost EXCEPT ![b] = g]
  /\ UNCHANGED <<held, timers, constructs, functions, calls, sharedApi, apis, synths, cdkless>>

\* addRole's argument: {}, {role} or {roleArn}.
RoleConfig(role, roleArn) == [role |-> role, roleArn |-> roleArn]
RoleConfigs ==
  {RoleConfig(Undefined, Undefined), RoleConfig("r1", Undefined),
   RoleConfig(Undefined, "arn1")}

\* The ghost record after addRole() threw 'Either role or roleArn must be
\* provided to addRole'.
RoleMissing(g) == [g EXCEPT !.addRoleErrors = Bump(@)]

(* addRole(config): throws when neither role nor roleArn is given; records   *)
(* config.role when given; otherwise imports the role by its ARN under the   *)
(* id `${resourceName}-imported-role` (which throws when the scope already   *)
(* has that id) and records it.                                              *)
AddRole(b, via, config) ==
  /\ b \in Created
  /\ IF ~Truthy(config.role) /\ ~Truthy(config.roleArn)
     THEN Thrown(b, via, RoleMissing(ghost[b]))
     ELSE IF Truthy(config.role)
     THEN Chain(b, via, [builders[b] EXCEPT !.iamRole = config.role], ghost[b])
     ELSE IF InStack(builders[b].scope, builders[b].resourceName, "imported-role", -1)
               \in constructs
     THEN Thrown(b, via, ghost[b])
     ELSE Imported(b, via, [builders[b] EXCEPT !.iamRole = config.roleArn],
                   InStack(builders[b].scope, builders[b].resourceName, "imported-role", -1))

(* environment(variables) through the Proxy, with an argument whose property *)
(* getter calls name(n) on the Proxy: the inner call runs while the outer    *)
(* wrapper has isAutoBuilding set.  Each wrapper that took the flag          *)
(* schedules target.build() when its body returned the target and the        *)
(* builder is not built, and clears the flag.                                *)
Reentrant(b, n, variables) ==
  /\ b \in Created
  /\ Len(ghost[b].envCalls) < MaxEnvCalls
  /\ LET outer == Intercepts(builders[b], "proxy")
         entered == IF outer THEN [builders[b] EXCEPT !.isAutoBuilding = TRUE]
                    ELSE builders[b]
         inner == Intercepts(entered, "proxy")
         named == [entered EXCEPT !.resourceName = n,
                                  !.isAutoBuilding = IF inner THEN FALSE ELSE @]
         innerTimer == IF inner /\ ~named.isBuilt THEN <<b>> ELSE <<>>
         nb == [named EXCEPT !.environmentVars = Spread(@, variables)]
         outerTimer == IF outer /\ ~nb.isBuilt THEN <<b>> ELSE <<>>
     IN  /\ Len(timers) + Len(innerTimer) + Len(outerTimer) <= MaxTimers
         /\ builders' = [builders EXCEPT ![b] =
                IF outer THEN [nb EXCEPT !.isAutoBuilding = FALSE] ELSE nb]
         /\ timers' = timers \o innerTimer \o outerTimer
         /\ ghost' = [ghost EXCEPT ![b] =
                [@ EXCEPT !.proxyCalls = Bump(@),
                          !.scheduled = IF Len(innerTimer) + Len(outerTimer) > 0
                                        THEN Bump(@) ELSE @,
                          !.nested = Bump(@),
                          !.sized = Spread(@, [k \in {"name"} |-> n]),
                          !.envCalls = Append(@, variables)]]
  /\ held' = held \cup {b}
  /\ UNCHANGED <<constructs, functions, calls, sharedApi, apis, synths, cdkless>>

\* The ghost record after a call of the setter of a sizing parameter or of the name.
Sizing(g, key, v) == [g EXCEPT !.sized = Spread(@, [k \in {key} |-> v])]

Name(b, via, n) ==
  /\ b \in Created
  /\ Chain(b, via, [builders[b] EXCEPT !.resourceName = n], Sizing(ghost[b], "name", n))

Environment(b, via, variables) ==
  /\ b \in Created
  /\ Len(ghost[b].envCalls) < MaxEnvCalls
  /\ Chain(b, via,
           [builders[b] EXCEPT !.environmentVars = Spread(@, variables)],
           [ghost[b] EXCEPT !.envCalls = Append(@, variables)])

Runtime(b, via, runtime) ==
  /\ b \in Created
  /\ Chain(b, via, [builders[b] EXCEPT !.runtimeValue = runtime],
           Sizing(ghost[b], "runtime", runtime))

\* A memory() that keeps the size of an earlier call.
MemoryFirstWins(b, via, size) ==
  /\ b \in Created
  /\ Chain(b, via,
           IF "memorySize" \in DOMAIN ghost[b].sized THEN builders[b]
           ELSE [builders[b] EXCEPT !.memorySize = size],
           Sizing(ghost[b], "memorySize", size))

Memory(b, via, size) ==
  /\ b \in Created
  /\ Chain(b, via, [builders[b] EXCEPT !.memorySize = size],
           Sizing(ghost[b], "memorySize", size))

Timeout(b, via, duration) ==
  /\ b \in Created
  /\ Chain(b, via, [builders[b] EXCEPT !.timeoutDuration = duration],
           Sizing(ghost[b], "timeout", duration))

LogRetention(b, via, retention) ==
  /\ b \in Created
  /\ Chain(b, via, [builders[b] EXCEPT !.logRetentionDays = retention],
           Sizing(ghost[b], "logRetention", retention))

Architecture(b, via, arch) ==
  /\ b \in Created
  /\ Chain(b, via, [builders[b] EXCEPT !.architectureValue = arch],
           Sizing(ghost[b], "architecture", arch))

\* The ghost record after a routing call.
Routing(g, method, p) ==
  [g EXCEPT !.firstRoute = IF @ = <<>> THEN <<method, p>> ELSE @,
            !.lastRoute = <<method, p>>]

Get(b, via, p) ==
  /\ b \in Created
  /\ Chain(b, via, [builders[b] EXCEPT !.method = "GET", !.path = p],
           Routing(ghost[b], "GET", p))

\* A post() that leaves a route already declared as it is.
PostUnlessRouted(b, via, p) ==
  /\ b \in Created
  /\ Chain(b, via,
           IF Truthy(builders[b].method) THEN builders[b]
           ELSE [builders[b] EXCEPT !.method = "POST", !.path = p],
           Routing(ghost[b], "POST", p))

Post(b, via, p) ==
  /\ b \in Created
  /\ Chain(b, via, [builders[b] EXCEPT !.method = "POST", !.path = p],
           Routing(ghost[b], "POST", p))

Put(b, via, p) ==
  /\ b \in Created
  /\ Chain(b, via, [builders[b] EXCEPT !.method = "PUT", !.path = p],
           Routing(ghost[b], "PUT", p))

Patch(b, via, p) ==
  /\ b \in Created
  /\ Chain(b, via, [builders[b] EXCEPT !.method = "PATCH", !.path = p],
           Routing(ghost[b], "PATCH", p))

Delete(b, via, p) ==
  /\ b \in Created
  /\ Chain(b, via, [builders[b] EXCEPT !.method = "DELETE", !.path = p],
           Routing(ghost[b], "DELETE", p))

\* The number of fragments a builder has recorded.
NFrags(bd) ==
  Len(bd.snsConfigs) + Len(bd.sqsConfigs) + Len(bd.s3Configs)
  + Len(bd.policyConfigs) + Len(bd.tableArns) + Len(bd.eventBridgeRuleConfigs)
  + Len(bd.mskConfigs) + Len(bd.smkConfigs) + Len(bd.dynamoStreamsConfigs)

\* Has builder b recorded fewer than n fragments?  (The code has no such limit.)
Room(b, n) == b \in Created /\ NFrags(builders[b]) < n

AddPolicy(b, via, arn) ==
  /\ b \in Created
  /\ Chain(b, via, [builders[b] EXCEPT !.policyConfigs = Append(@, arn)], ghost[b])

\* An addSnsTrigger() that keeps only the topic it is given.
AddSnsTriggerReplacing(b, via, topicArn) ==
  /\ b \in Created
  /\ Chain(b, via, [builders[b] EXCEPT !.snsConfigs = <<topicArn>>], ghost[b])

AddSnsTrigger(b, via, topicArn) ==
  /\ b \in Created
  /\ Chain(b, via, [builders[b] EXCEPT !.snsConfigs = Append(@, topicArn)], ghost[b])

AddSqsTrigger(b, via, queueArn) ==
  /\ b \in Created
  /\ Chain(b, via, [builders[b] EXCEPT !.sqsConfigs = Append(@, queueArn)], ghost[b])

AddS3Trigger(b, via, bucketArn) ==
  /\ b \in Created
  /\ Chain(b, via, [builders[b] EXCEPT !.s3Configs = Append(@, bucketArn)], ghost[b])

AddTablePermissions(b, via, tableArn) ==
  /\ b \in Created
  /\ Chain(b, via, [builders[b] EXCEPT !.tableArns = Append(@, tableArn)], ghost[b])

AddEventBridgeRuleTrigger(b, via, options) ==
  /\ b \in Created
  /\ Chain(b, via,
           [builders[b] EXCEPT !.eventBridgeRuleConfigs = Append(@, options)], ghost[b])

AddMSKTrigger(b, via, config) ==
  /\ b \in Created
  /\ Chain(b, via, [builders[b] EXCEPT !.mskConfigs = Append(@, config)], ghost[b])

AddSMKTrigger(b, via, config) ==
  /\ b \in Created
  /\ Chain(b, via, [builders[b] EXCEPT !.smkConfigs = Append(@, config)], ghost[b])

AddDynamoStreamsTrigger(b, via, streamArn) ==
  /\ b \in Created
  /\ Chain(b, via,
           [builders[b] EXCEPT !.dynamoStreamsConfigs = Append(@, streamArn)], ghost[b])

\* MSK configurations: a plain one, and AT_TIMESTAMP ones with a date.
MskConfig(arn, pos, date) ==
  [clusterArn |-> arn, startingPosition |-> pos, startingPositionDate |-> date]
GoodMsk == MskConfig("d1", "AT_TIMESTAMP", IsoDate)
BadMsk == MskConfig("d2", "AT_TIMESTAMP", "yesterday")

---------------------------------------------------------------------------
---------------------------------------------------------------------------
\* What app.synth() finds in stack s: the functions in the scope, the
\* builders of the stack that chained calls have configured, and those of
\* the stack that are not built.
Snapshot(s, auto) ==
  [ stack |-> s,
    auto |-> auto,
    functions |-> {f \in DOMAIN functions : functions[f].scope = s},
    configured |-> {b \in Created : builders[b].scope = s /\ ghost[b].proxyCalls >= 1},
    unbuilt |-> {b \in Created : builders[b].scope = s /\ ~builders[b].isBuilt} ]

\* Has the process emitted beforeExit?
Exited == \E i \in DOMAIN synths : synths[i].auto

\* CdkLess.synth(), called by the caller on the stack s.
Synth(s) ==
  /\ ~Exited
  /\ Len(synths) < MaxSynths
  /\ synths' = Append(synths, Snapshot(s, FALSE))
  /\ UNCHANGED <<builders, held, timers, sharedApi, apis, functions, constructs, calls, ghost, cdkless>>

\* process.on("beforeExit", () => this.synth()): emitted once the event loop
\* has nothing left to run; the hook of every CdkLess stack runs.
BeforeExit ==
  /\ ~Exited
  /\ timers = <<>>
  /\ synths' = synths \o [s \in Stacks |-> Snapshot(s, TRUE)]
  /\ UNCHANGED <<builders, held, timers, sharedApi, apis, functions, constructs, calls, ghost, cdkless>>


---------------------------------------------------------------------------
\* stage.length > 0 ? `${appName}-${stage}` : appName
StackId(appName, stage) ==
  IF stage # "" THEN appName \o "-" \o stage ELSE appName

\* The `settings` property of the constructor's argument: absent, or an object.
Omitted == [given |-> FALSE, value |-> Empty]
Given(settings) == [given |-> TRUE, value |-> settings]

\* if (settings.defaultTags) {..} else { ProjectName: stackId }
InitialTags(settings, stackId) ==
  IF "defaultTags" \in DOMAIN settings
  THEN settings["defaultTags"] ELSE {<<"ProjectName", stackId>>}

\* The CdkLess object the constructor leaves.
NewStack(appName, settings, arg) ==
  [ appName |-> appName,
    given |-> arg,          \* the settings argument as the caller passed it
    stackId |-> StackId(appName, Stage),
    stage |-> Stage,
    stackTags |-> InitialTags(settings, StackId(appName, Stage)),
    resourceTags |-> InitialTags(settings, StackId(appName, Stage)),
    layerReturns |-> {} ]   \* what its setSharedLayer() calls returned

(* new CdkLess({appName, settings}): `settings = defaultSettings` when the     *)
(* property is absent; setDefaultSettings(settings) merges it into the       *)
(* module-level defaultSettings; then the stack and its tags.                *)
Constructed(appName, settings, arg) ==
  /\ Len(stacks) < MaxStacks
  /\ defaultSettings' = Spread(defaultSettings, settings)
  /\ stacks' = Append(stacks, NewStack(appName, settings, arg))
  /\ UNCHANGED <<builders, held, timers, sharedApi, apis, functions, constructs, calls,
                 ghost, synths, sharedLayer, layers>>

NewCdkLess(appName, arg) ==
  Constructed(appName, IF arg.given THEN arg.value ELSE defaultSettings, arg)

\* CdkLess.lambda(handler) on a stack the process has constructed.
LambdaOf(s, h) == s \in DOMAIN stacks /\ Lambda(s, h)

\* The stack's record after one more setSharedLayer() call returned layer l.
Returned(s, l) == [stacks EXCEPT ![s].layerReturns = @ \cup {l}]

\* setSharedLayer(layerPath): the module-level sharedLayer when set, else a
\* new LayerVersion in this stack, stored in the module-level variable.
SetSharedLayer(s) ==
  /\ s \in DOMAIN stacks
  /\ IF sharedLayer # 0
     THEN /\ stacks' = Returned(s, sharedLayer)
          /\ UNCHANGED <<sharedLayer, layers, constructs>>
     ELSE /\ layers' = Append(layers, [scope |-> s])
          /\ sharedLayer' = Len(layers) + 1
          /\ constructs' = constructs \cup {InStack(s, stacks[s].appName, "layer", -1)}
          /\ stacks' = Returned(s, Len(layers) + 1)
  /\ UNCHANGED <<builders, held, timers, sharedApi, apis, functions, calls, ghost,
                 synths, defaultSettings>>

\* addLayers(layers): this.layers = [...this.layers, ...layers]
AddLayers(b, via, ls) ==
  /\ b \in Created
  /\ Chain(b, via, [builders[b] EXCEPT !.layers = @ \o ls], ghost[b])


\* Is another builder allowed?  (The code has no such limit.)
Fewer(n) == Len(builders) < n

\* One builder, every way of calling it: through the Proxy or on the raw
\* target, explicit build() and getLambda(), timers firing at any later turn.
Next ==
  \/ Fewer(1) /\ Lambda(1, "src/f")
  \/ \E via \in Vias :
       \/ \E n \in Names : Name(1, via, n)
       \/ Get(1, via, "/x")
       \/ Room(1, MaxFrags) /\ AddSnsTrigger(1, via, "d1")
       \/ \E c \in {GoodMsk, BadMsk} : Room(1, MaxFrags) /\ AddMSKTrigger(1, via, c)
  \/ Build(1)
  \/ GetLambdaProxy(1)
  \/ GetLambdaRaw(1)
  \/ FireTimer

Spec == Init /\ [][Next]_vars

\* In a fluent chain app.lambda(h).m1(..).m2(..) the first call is made on the
\* Proxy and every later one on what the previous call returned: the target.
FluentVia(b) == IF b \in held THEN "raw" ELSE "proxy"

\* Has no routing method been called on b so far?
Unrouted(b) == b \in Created /\ ghost[b].lastRoute = <<>>

\* One builder configured by one fluent chain over every kind of fragment,
\* optionally ended by build(); the timer fires after the chain.
NextChain ==
  \/ Fewer(1) /\ Lambda(1, "src/f")
  \/ \E p \in {"/x"} :
       Unrouted(1) /\ (Get(1, FluentVia(1), p) \/ Post(1, FluentVia(1), p))
  \/ /\ Room(1, ChainFrags)
     /\ \/ \E d \in Arns : AddSnsTrigger(1, FluentVia(1), d)
        \/ AddSqsTrigger(1, FluentVia(1), "d1")
        \/ AddS3Trigger(1, FluentVia(1), "d1")
        \/ AddPolicy(1, FluentVia(1), "d1")
        \/ AddTablePermissions(1, FluentVia(1), "d1")
        \/ AddEventBridgeRuleTrigger(1, FluentVia(1), "d1")
        \/ \E c \in {GoodMsk, BadMsk} : AddMSKTrigger(1, FluentVia(1), c)
        \/ AddSMKTrigger(1, FluentVia(1), "d1")
        \/ AddDynamoStreamsTrigger(1, FluentVia(1), "d1")
  \/ Build(1)
  \/ FireTimer

SpecChain == Init /\ [][NextChain]_vars

\* Has the caller not called build() or getLambda() on b so far?
NotYetCalled(b) == b \in Created /\ ghost[b].explicitBuilds = 0

\* Several builders in several stacks, each given a route by a fluent chain
\* that may end with build(); timers and explicit builds run in any order.
NextShared ==
  \/ \E s \in Stacks, h \in Handlers : Fewer(MaxBuilders) /\ Lambda(s, h)
  \/ \E b \in Builders :
       \/ Get(b, FluentVia(b), "/x")
       \/ NotYetCalled(b) /\ Build(b)
  \/ FireTimer

SpecShared == Init /\ [][NextShared]_vars

\* One builder and its environment() calls.
NextEnv ==
  \/ Fewer(1) /\ Lambda(1, "src/f")
  \/ \E variables \in EnvMaps : Environment(1, FluentVia(1), variables)
  \/ Build(1)
  \/ FireTimer

SpecEnv == Init /\ [][NextEnv]_vars

---------------------------------------------------------------------------
\* One builder created from a handler path that may end in "/" or be empty,
\* renamed, possibly to the empty string, and built.
IdHandlers == {"src/f", "src/", ""}
IdNames == {"", "g"}
NextIdentity ==
  \/ \E h \in IdHandlers : Fewer(1) /\ Lambda(1, h)
  \/ \E via \in Vias, n \in IdNames : Name(1, via, n)
  \/ Build(1)
  \/ GetLambdaProxy(1)
  \/ FireTimer

SpecIdentity == Init /\ [][NextIdentity]_vars

\* One builder and the routing calls of one fluent chain, in any number and
\* order, with paths written with and without the leading "/".
RoutePaths == Paths \cup {"x"}
NextRoute ==
  \/ Fewer(1) /\ Lambda(1, "src/f")
  \/ \E p \in RoutePaths :
       \/ Get(1, FluentVia(1), p)
       \/ Post(1, FluentVia(1), p)
       \/ Put(1, FluentVia(1), p)
       \/ Patch(1, FluentVia(1), p)
       \/ Delete(1, FluentVia(1), p)
  \/ Build(1)
  \/ FireTimer

SpecRoute == Init /\ [][NextRoute]_vars

---------------------------------------------------------------------------

\* A whole run of the process: the builders of one stack created and
\* configured by fluent chains, never built by the caller; synth() called by hand at any point;
\* timers run; beforeExit once the loop is empty, after which nothing runs.
NextSynth ==
  \/ /\ ~Exited
     /\ \/ \E h \in Handlers : Fewer(MaxBuilders) /\ Lambda(1, h)
        \/ \E b \in Builders : Get(b, FluentVia(b), "/x")
        \/ \E b \in Builders : Name(b, FluentVia(b), "g")
        \/ Synth(1)
  \/ FireTimer
  \/ BeforeExit

\* A scheduled timer runs (FireTimer is enabled exactly when the queue is not
\* empty, and is the only action that takes its head), and beforeExit is
\* emitted once nothing is pending.
SpecSynth ==
  Init /\ [][NextSynth]_vars /\ WF_timers(TimerStep) /\ WF_vars(BeforeExit)

---------------------------------------------------------------------------

\* The name given to the next stack of the process.
NextAppName == IF stacks = <<>> THEN "a" ELSE "b"

\* Two stacks of one process, the shared layer set on either at any moment,
\* builders created on either, the first of them with or without a layer of
\* its own, each built by hand or, once configured, by its timer.
NextLayer ==
  \/ NewCdkLess(NextAppName, Omitted)
  \/ \E s \in Stacks : SetSharedLayer(s)
  \/ \E s \in Stacks : Fewer(MaxBuilders) /\ LambdaOf(s, "src/f")
  \/ 1 \in Created /\ builders[1].layers = <<>>
       /\ AddLayers(1, FluentVia(1), <<OwnLayer(1)>>)
  \/ \E b \in Builders : NotYetCalled(b) /\ Build(b)
  \/ FireTimer

SpecLayer == Init /\ [][NextLayer]_vars

---------------------------------------------------------------------------

\* Settings a stack is constructed with: none, {}, default Lambda options
\* (for some of the parameters), default tags.
StackOptions ==
  [ runtime |-> "nodejs20.x", memorySize |-> 512, timeout |-> 60,
    environment |-> [A |-> "1"] ]
SettingsArgs ==
  { Omitted, Given(Empty),
    Given([defaultLambdaOptions |-> StackOptions]),
    Given([defaultTags |-> {<<"Owner", "team-a">>}]) }

\* Is b a builder that no build() has been run on?
Unprovisioned(b) == b \in Created /\ ghost[b].provisionRuns = 0

\* Stacks constructed with and without settings, one builder created on one of
\* them at any moment, sized by the calls of one fluent chain and then built
\* by hand, by getLambda() or by its timer.
NextSettings ==
  \/ \E arg \in SettingsArgs : NewCdkLess(NextAppName, arg)
  \/ \E s \in Stacks : Fewer(1) /\ LambdaOf(s, "src/f")
  \/ /\ Unprovisioned(1)
     /\ \/ \E size \in {128, 1024} : Memory(1, FluentVia(1), size)
        \/ Timeout(1, FluentVia(1), 10)
        \/ Runtime(1, FluentVia(1), "nodejs18.x")
        \/ Architecture(1, FluentVia(1), "arm64")
        \/ LogRetention(1, FluentVia(1), "ONE_DAY")
        \/ ghost[1].envCalls = <<>> /\ Environment(1, FluentVia(1), [A |-> "2"])
  \/ Build(1)
  \/ GetLambdaProxy(1)
  \/ FireTimer

SpecSettings == Init /\ [][NextSettings]_vars


\* Has environment() not been called on b so far?
NoEnvironment(b) == b \in Created /\ ghost[b].envCalls = <<>>

\* One builder called through the Proxy or on the raw target, before and
\* after it is built: name(), addRole() with and without a role, a setter
\* whose argument calls back into the Proxy, build(), getLambda(), timers.
NextGuard ==
  \/ Fewer(1) /\ Lambda(1, "src/f")
  \/ \E via \in Vias :
       \/ Name(1, via, "g")
       \/ \E config \in RoleConfigs : AddRole(1, via, config)
  \/ NoEnvironment(1) /\ Reentrant(1, "g", [A |-> "1"])
  \/ Build(1)
  \/ GetLambdaProxy(1)
  \/ FireTimer

SpecGuard == Init /\ [][NextGuard]_vars

\* One builder, named or not, then built, and then every kind of
\* configuration call on it, through the Proxy or on the raw target, with
\* build(), getLambda() and timers in between.
NextAfter ==
  \/ Fewer(1) /\ Lambda(1, "src/f")
  \/ \E via \in Vias : Name(1, via, "g")
  \/ \E via \in Vias :
       /\ 1 \in Created /\ builders[1].isBuilt
       /\ \/ Get(1, via, "/x")
          \/ Memory(1, via, 512)
          \/ NoEnvironment(1) /\ Environment(1, via, [A |-> "1"])
          \/ Room(1, 1) /\ AddSnsTrigger(1, via, "d1")
          \/ Room(1, 1) /\ AddPolicy(1, via, "d1")
          \/ \E config \in RoleConfigs : AddRole(1, via, config)
  \/ Build(1)
  \/ GetLambdaProxy(1)
  \/ FireTimer

SpecAfter == Init /\ [][NextAfter]_vars


\* The handler of the next builder of the process.
NextHandler == IF builders = <<>> THEN "src/f" ELSE "src/g"

\* Two builders of one stack; every kind of fragment recorded on the first,
\* through the Proxy or on the raw target, a topic and a route on the second;
\* each built by hand or by its timer, at any moment.
NextAppend ==
  \/ Fewer(2) /\ Lambda(1, NextHandler)
  \/ \E via \in Vias :
       /\ Room(1, MaxFrags)
       /\ \/ \E d \in Arns : AddSnsTrigger(1, via, d)
          \/ AddSqsTrigger(1, via, "d1")
          \/ AddS3Trigger(1, via, "d1")
          \/ AddPolicy(1, via, "d1")
          \/ AddTablePermissions(1, via, "d1")
          \/ AddEventBridgeRuleTrigger(1, via, "d1")
          \/ AddMSKTrigger(1, via, GoodMsk)
          \/ AddSMKTrigger(1, via, "d1")
          \/ AddDynamoStreamsTrigger(1, via, "d1")
  \/ Room(2, 1) /\ AddSnsTrigger(2, FluentVia(2), "d1")
  \/ Unrouted(2) /\ Get(2, FluentVia(2), "/x")
  \/ \E b \in Builders : NotYetCalled(b) /\ Build(b)
  \/ FireTimer

SpecAppend == Init /\ [][NextAppend]_vars


\* One builder, its sizing, name and environment set any number of times, in
\* separate statements on the Proxy or further down a chain on the raw
\* target, until build() runs: by hand, by getLambda() or by a timer.
NextSizing ==
  \/ Fewer(1) /\ Lambda(1, "src/f")
  \/ \E via \in Vias :
       /\ Unprovisioned(1)
       /\ \/ \E size \in {128, 1024} : Memory(1, via, size)
          \/ \E duration \in {10, 20} : Timeout(1, via, duration)
          \/ Runtime(1, via, "nodejs18.x")
          \/ Architecture(1, via, "arm64")
          \/ \E n \in Names : Name(1, via, n)
          \/ \E variables \in {[A |-> "1"], [A |-> "2"]} : Environment(1, via, variables)
  \/ Build(1)
  \/ GetLambdaProxy(1)
  \/ FireTimer

SpecSizing == Init /\ [][NextSizing]_vars


\* A second well-formed MSK configuration, of another cluster.
OtherMsk == MskConfig("d2", "TRIM_HORIZON", Undefined)

\* One builder and one fluent chain that records fragments of any kind, two
\* of a kind having different targets; then build(), by hand or by the timer.
NextCoexist ==
  \/ Fewer(1) /\ Lambda(1, "src/f")
  \/ /\ Room(1, MaxFrags)
     /\ \/ \E d \in Arns :
             \/ AddSnsTrigger(1, FluentVia(1), d)
             \/ AddSqsTrigger(1, FluentVia(1), d)
             \/ AddS3Trigger(1, FluentVia(1), d)
             \/ AddPolicy(1, FluentVia(1), d)
             \/ AddTablePermissions(1, FluentVia(1), d)
             \/ AddEventBridgeRuleTrigger(1, FluentVia(1), d)
             \/ AddSMKTrigger(1, FluentVia(1), d)
             \/ AddDynamoStreamsTrigger(1, FluentVia(1), d)
        \/ \E c \in {GoodMsk, OtherMsk} : AddMSKTrigger(1, FluentVia(1), c)
  \/ Build(1)
  \/ FireTimer

SpecCoexist == Init /\ [][NextCoexist]_vars


\* Paths a routing method may be given: with and without the leading "/",
\* and the empty string.
AnyPaths == {"/x", "x", ""}

\* Two builders of one stack, each with or without one routing call, whose
\* path may be any string, and with or without a topic; each built by hand or
\* by its timer.
NextRouting ==
  \/ Fewer(2) /\ Lambda(1, NextHandler)
  \/ \E b \in Builders, p \in AnyPaths :
       /\ Unrouted(b)
       /\ \/ Get(b, FluentVia(b), p)
          \/ Post(b, FluentVia(b), p)
          \/ Delete(b, FluentVia(b), p)
  \/ \E b \in Builders : Room(b, 1) /\ AddSnsTrigger(b, FluentVia(b), "d1")
  \/ \E b \in Builders : NotYetCalled(b) /\ Build(b)
  \/ FireTimer

SpecRouting == Init /\ [][NextRouting]_vars


\* Two builders of one stack, made from the same handler or from different
\* ones, each renamed or not, with or without a route and a topic, built by
\* hand or by their timers in any order.
NextDuplicate ==
  \/ \E h \in Handlers : Fewer(2) /\ Lambda(1, h)
  \/ \E b \in Builders :
       \/ Name(b, FluentVia(b), "g")
       \/ Unrouted(b) /\ Get(b, FluentVia(b), "/x")
       \/ Room(b, 1) /\ AddSnsTrigger(b, FluentVia(b), "d1")
       \/ NotYetCalled(b) /\ Build(b)
  \/ FireTimer

SpecDuplicate == Init /\ [][NextDuplicate]_vars


\* A whole run of the process.  Two builders of one stack are configured in
\* any number of statements, the first through the Proxy or down a chain,
\* with a well-formed or a malformed Kafka trigger, and built by hand or not;
\* the timers run in later turns; beforeExit is emitted once the loop is
\* empty, and nothing is called after it.
NextDrain ==
  \/ /\ ~Exited
     /\ \/ Fewer(2) /\ Lambda(1, NextHandler)
        \/ \E via \in Vias :
             \/ Name(1, via, "g")
             \/ \E c \in {GoodMsk, BadMsk} : Room(1, 1) /\ AddMSKTrigger(1, via, c)
        \/ Unrouted(2) /\ Get(2, FluentVia(2), "/x")
        \/ \E b \in Builders : NotYetCalled(b) /\ Build(b)
  \/ FireTimer
  \/ BeforeExit

\* A scheduled timer runs: FireTimer is enabled exactly when the queue is not
\* empty, and is the only action that takes its head.
SpecDrain == Init /\ [][NextDrain]_vars /\ WF_timers(TimerStep)


\* What the properties below read from a state or a step.
Range(q) == {q[i] : i \in DOMAIN q}
FunctionsOf(b) == {f \in DOMAIN functions : functions[f].b = b}
CallsOf(b) == SelectSeq(calls, LAMBDA c : c.b = b)
Pending(b) == b \in Range(timers)

FragKinds == {"sns", "sqs", "s3", "policy", "table", "rule", "msk", "smk", "dynamo"}
IsFrag(c) == c.op \in FragKinds
IsCollaborator(c) == c.op # "createApi"
Ops(q) == [i \in DOMAIN q |-> q[i].op]

\* The collaborator calls a step makes (the log only grows), and of these the
\* fragment applications.
NewCalls == SubSeq(calls', Len(calls) + 1, Len(calls'))
Applied == SelectSeq(NewCalls, IsFrag)

IsPrefix(p, q) == Len(p) <= Len(q) /\ \A i \in DOMAIN p : p[i] = q[i]

(* C1: build() is idempotent: however many times build() runs on a builder, *)
(* from the caller or from timers, createNodejsFunction runs at most once   *)
(* for it and every build() that returns returns the same handle.           *)
C1_BuildIdempotent ==
  \A b \in Created :
    /\ ghost[b].provisionRuns <= 1
    /\ Cardinality(ghost[b].buildReturns) <= 1

(* C2: a fluent chain (one call through the Proxy, the rest on the target    *)
(* it returned) with no build() or getLambda() from the caller: nothing is   *)
(* provisioned while the timer is pending, and once it has fired             *)
(* createNodejsFunction has run exactly once and made exactly one function.  *)
C2_DeferredFinalizeOnce ==
  \A b \in Created :
    (ghost[b].proxyCalls = 1 /\ ghost[b].explicitBuilds = 0) =>
      IF Pending(b)
      THEN ghost[b].provisionRuns = 0 /\ FunctionsOf(b) = {}
      ELSE ghost[b].provisionRuns = 1 /\ Cardinality(FunctionsOf(b)) = 1

\* A chain of at least three calls (a route and a topic applied by the build)
\* whose timer has fired.
C2_Witness ==
  \E b \in Created :
    /\ ghost[b].proxyCalls = 1 /\ ghost[b].explicitBuilds = 0
    /\ ghost[b].fired = 1 /\ ~Pending(b)
    /\ builders[b].isBuilt
    /\ {"provision", "sns", "route"} \subseteq Range(Ops(CallsOf(b)))

(* C3: a timer that fires on a builder that is already built changes        *)
(* nothing: no function, no construct, no collaborator call, no route, no   *)
(* field of any builder; and a built builder has exactly one function.      *)
C3_ExplicitBuildSuppresses ==
  /\ [](\A b \in Created : builders[b].isBuilt => Cardinality(FunctionsOf(b)) = 1)
  /\ [][(TimerStep /\ builders[Head(timers)].isBuilt) =>
          UNCHANGED <<builders, constructs, functions, calls, sharedApi, apis>>]_vars

\* The one timer of a chain fired after the caller's build() had built.
C3_Witness ==
  \E b \in Created :
    /\ ghost[b].scheduled = 1 /\ ghost[b].fired = 1 /\ ghost[b].firedBuilt = 1
    /\ ghost[b].explicitBuilds = 1 /\ ghost[b].provisionRuns = 1
    /\ builders[b].isBuilt /\ Cardinality(FunctionsOf(b)) = 1

(* C4: getLambda() never returns an absent handle, whatever object it is    *)
(* called on and whatever was called before.                                *)
C4_GetLambdaUsable ==
  \A b \in Created : NoLambda \notin ghost[b].getLambdaReturns

---------------------------------------------------------------------------
\* Build order (SpecChain).
CollaboratorCalls(b) == SelectSeq(CallsOf(b), IsCollaborator)
FragCalls(b) == SelectSeq(CallsOf(b), IsFrag)
SnsCalls(b) == SelectSeq(CallsOf(b), LAMBDA c : c.op = "sns")
Targets(q) == [i \in DOMAIN q |-> q[i].d]

\* One route, topics d1 then d2 and one policy, all applied by a build() that
\* only a timer called.
Scenario(b) ==
  /\ b \in Created /\ builders[b].isBuilt /\ ghost[b].explicitBuilds = 0
  /\ Truthy(builders[b].method) /\ Truthy(builders[b].path)
  /\ builders[b].snsConfigs = <<"d1", "d2">>
  /\ Len(builders[b].policyConfigs) = 1
  /\ NFrags(builders[b]) = 3
  /\ Len(FragCalls(b)) = 3
  /\ "route" \in Range(Ops(CallsOf(b)))

(* C5 as stated: in the scenario the collaborator calls are provision,     *)
(* route, subscribe d1, subscribe d2, grant, in that order.                *)
C5_RouteBeforeFragments ==
  \A b \in Created :
    Scenario(b) =>
      /\ Ops(CollaboratorCalls(b)) = <<"provision", "route", "sns", "sns", "policy">>
      /\ Targets(SnsCalls(b)) = <<"d1", "d2">>

(* C5: in the scenario the collaborator calls are provision, subscribe d1, *)
(* subscribe d2, grant and then the route, each once, in that order.       *)
C5_RouteAfterFragments ==
  \A b \in Created :
    Scenario(b) =>
      /\ Ops(CollaboratorCalls(b)) = <<"provision", "sns", "sns", "policy", "route">>
      /\ Targets(SnsCalls(b)) = <<"d1", "d2">>

C5_Witness == \E b \in Created : Scenario(b) /\ ghost[b].fired >= 1

\* The kinds in the order build() walks them.
KindOrder == <<"sns", "sqs", "s3", "policy", "table", "rule", "msk", "smk", "dynamo">>
Target(kind, config) == IF kind = "msk" THEN config.clusterArn ELSE config
KindCalls(bd, b, kind) ==
  [i \in 1..Len(Configs(kind, bd)) |->
     Call(b, kind, i - 1, Target(kind, Configs(kind, bd)[i]))]
RECURSIVE InKindOrder(_, _, _)
InKindOrder(bd, b, n) ==
  IF n > Len(KindOrder) THEN <<>>
  ELSE KindCalls(bd, b, KindOrder[n]) \o InKindOrder(bd, b, n + 1)

(* C6: whatever order the fragments were recorded in, the fragment          *)
(* applications of one build() are the recorded fragments kind by kind in   *)
(* one fixed order of kinds and, within a kind, in recording order: all of  *)
(* them when the build succeeds, a prefix when it throws.                   *)
C6_FixedKindOrder ==
  [][NewCalls # <<>> =>
       /\ IsPrefix(Applied, InKindOrder(builders[NewCalls[1].b], NewCalls[1].b, 1))
       /\ builders'[NewCalls[1].b].isBuilt =>
            Applied = InKindOrder(builders[NewCalls[1].b], NewCalls[1].b, 1)]_vars

\* A built builder with topics recorded as d2 then d1 and a policy, applied
\* as d2, d1, policy.
C6_Witness ==
  \E b \in Created :
    /\ builders[b].isBuilt
    /\ builders[b].snsConfigs = <<"d2", "d1">>
    /\ Len(builders[b].policyConfigs) = 1
    /\ Ops(FragCalls(b)) = <<"sns", "sns", "policy">>
    /\ Targets(FragCalls(b)) = <<"d2", "d1", "d1">>

\* The classes of kinds as stated: subscriptions and stream sources, then
\* grants, then rules.
StatedClass(op) ==
  CASE op \in {"sns", "sqs", "s3", "msk", "smk", "dynamo"} -> 1
    [] op \in {"policy", "table"} -> 2
    [] op = "rule" -> 3

\* The classes as build() walks them: the stream sources come last.
BuildClass(op) ==
  CASE op \in {"sns", "sqs", "s3"} -> 1
    [] op \in {"policy", "table"} -> 2
    [] op = "rule" -> 3
    [] op \in {"msk", "smk", "dynamo"} -> 4

(* C7 as stated: in one build() every subscription or stream source (MSK,  *)
(* self-managed Kafka, DynamoDB streams) is applied before any grant, and   *)
(* every grant before any EventBridge rule.                                 *)
C7_SourcesBeforeGrants ==
  [][\A p, q \in DOMAIN Applied :
       p < q => StatedClass(Applied[p].op) <= StatedClass(Applied[q].op)]_vars

(* C7: in one build() topic, queue and bucket subscriptions are applied     *)
(* before any grant, every grant before any EventBridge rule, and every     *)
(* rule before any MSK, self-managed Kafka or DynamoDB streams source.      *)
C7_SourcesAfterRules ==
  [][\A p, q \in DOMAIN Applied :
       p < q => BuildClass(Applied[p].op) <= BuildClass(Applied[q].op)]_vars

\* A build that applied a grant, then a rule, then an MSK source.
C7_Witness ==
  \E b \in Created :
    /\ builders[b].isBuilt
    /\ Ops(FragCalls(b)) = <<"policy", "rule", "msk">>

---------------------------------------------------------------------------
\* The shared API (SpecShared).
RouteCalls == SelectSeq(calls, LAMBDA c : c.op = "route")
CreateApiCalls == SelectSeq(calls, LAMBDA c : c.op = "createApi")
RoutesOf(b) == {a \in DOMAIN apis : \E r \in Range(apis[a].routes) : r.b = b}
Routed == {b \in Created : RoutesOf(b) # {}}

(* C8: however many builders declare a route and in whatever order their    *)
(* builds run, one API at most is ever created, by the first build that     *)
(* registers a route, and every build of a builder with a route registers   *)
(* that route, once, on that API.                                           *)
C8_SharedApiCreatedOnce ==
  /\ [](/\ Len(apis) <= 1
        /\ Len(CreateApiCalls) = Len(apis)
        /\ sharedApi = Len(apis)
        /\ RouteCalls # <<>> =>
             /\ Len(CreateApiCalls) = 1
             /\ CreateApiCalls[1].b = RouteCalls[1].b
        /\ \A i \in DOMAIN RouteCalls : RouteCalls[i].i = 1
        /\ \A b \in Created : RoutesOf(b) \subseteq {1})
  /\ [][\A b \in Created :
          (/\ ~builders[b].isBuilt /\ builders'[b].isBuilt
           /\ Truthy(builders[b].method) /\ Truthy(builders[b].path)) =>
             /\ sharedApi' = 1
             /\ Len(SelectSeq(apis'[1].routes, LAMBDA r : r.b = b)) = 1
             /\ IF sharedApi = 0
                THEN Len(apis') = 1
                ELSE IsPrefix(apis[1].routes, apis'[1].routes)]_vars

\* Two builders of one stack, both built, both routes on the one API.
C8_Witness ==
  /\ Len(builders) = 2
  /\ builders[1].scope = builders[2].scope
  /\ builders[1].isBuilt /\ builders[2].isBuilt
  /\ Len(apis) = 1 /\ Len(apis[1].routes) = 2
  /\ Routed = {1, 2}

(* C9: a route is registered on an API created in the stack of the builder  *)
(* that registers it: builders of a second stack get an API of their own.   *)
C9_SharedApiPerStack ==
  \A a \in DOMAIN apis :
    \A r \in Range(apis[a].routes) : builders[r.b].scope = apis[a].scope

---------------------------------------------------------------------------
\* environment() (SpecEnv).
SetBy(b, k) == {i \in DOMAIN ghost[b].envCalls : k \in DOMAIN ghost[b].envCalls[i]}
LastSetBy(b, k) == CHOOSE i \in SetBy(b, k) : \A j \in SetBy(b, k) : j <= i
A1 == [k \in {"A"} |-> "1"]
B2 == [k \in {"B"} |-> "2"]
A3 == [k \in {"A"} |-> "3"]

(* C10: each environment() call merges into the mapping: after it the keys  *)
(* are the earlier keys and the call's keys, the call's keys carry the      *)
(* call's values and every other key keeps its value; so each key passed    *)
(* carries the value of the last call that passed it and a key never passed *)
(* is absent.  After {A:1} then {B:2} the mapping holds A:1 and B:2 beside  *)
(* the constructor's STAGE entry, and after a further {A:3} A:3 and B:2.    *)
C10_EnvironmentMerge ==
  /\ [](\A b \in Created :
          LET env == builders[b].environmentVars
              passed == ghost[b].envCalls
          IN  /\ DOMAIN env = {"STAGE"} \cup {k \in EnvKeys : SetBy(b, k) # {}}
              /\ env["STAGE"] = Stage
              /\ \A k \in DOMAIN env \ {"STAGE"} : env[k] = passed[LastSetBy(b, k)][k]
              /\ passed = <<A1, B2>> => env = [STAGE |-> Stage, A |-> "1", B |-> "2"]
              /\ passed = <<A1, B2, A3>> => env = [STAGE |-> Stage, A |-> "3", B |-> "2"])
  /\ [][\A b \in Created :
          (b \in DOMAIN ghost /\ Len(ghost'[b].envCalls) = Len(ghost[b].envCalls) + 1) =>
             LET env == builders[b].environmentVars
                 variables == ghost'[b].envCalls[Len(ghost'[b].envCalls)]
             IN  /\ DOMAIN builders'[b].environmentVars = DOMAIN env \cup DOMAIN variables
                 /\ \A k \in DOMAIN variables : builders'[b].environmentVars[k] = variables[k]
                 /\ \A k \in DOMAIN env \ DOMAIN variables :
                      builders'[b].environmentVars[k] = env[k]]_vars

\* The three calls of the scenario made, the function built with the result.
C10_Witness ==
  \E b \in Created :
    /\ ghost[b].envCalls = <<A1, B2, A3>>
    /\ builders[b].environmentVars = [STAGE |-> Stage, A |-> "3", B |-> "2"]
    /\ builders[b].isBuilt
    /\ \E f \in FunctionsOf(b) : functions[f].environment = builders[b].environmentVars

---------------------------------------------------------------------------
\* The life of one builder (Spec).

\* A step in which builder b becomes built.
Finishes(b) == ~builders[b].isBuilt /\ builders'[b].isBuilt

(* C11: isBuilt never goes from true to false, and it goes from false to    *)
(* true only in a step that ran build() to its end without a throw: the     *)
(* function provisioned, every recorded fragment applied, the route (when   *)
(* one is declared) registered.                                             *)
C11_BuiltFlagMonotonic ==
  [][\A b \in Created :
       /\ builders[b].isBuilt => builders'[b].isBuilt
       /\ Finishes(b) =>
            /\ NewCalls # <<>>
            /\ NewCalls[1] = Call(b, "provision", 0, builders[b].resourceName)
            /\ Applied = InKindOrder(builders[b], b, 1)
            /\ (Truthy(builders[b].method) /\ Truthy(builders[b].path)) =>
                 NewCalls[Len(NewCalls)].op = "route"
            /\ ghost'[b].failed = ghost[b].failed]_vars

\* A builder built with a fragment applied, on which a timer has since
\* fired and getLambda() has been called.
C11_Witness ==
  \E b \in Created :
    /\ builders[b].isBuilt
    /\ ghost[b].firedBuilt >= 1
    /\ ghost[b].getLambdaReturns # {}
    /\ Len(FragCalls(b)) >= 1

(* C12: the handle is present only once a build has succeeded, and once     *)
(* assigned it is never assigned again.                                     *)
C12_HandleSetOnceOnSuccess ==
  /\ [](\A b \in Created : builders[b].lambda # NoLambda => builders[b].isBuilt)
  /\ [][\A b \in Created :
          builders[b].lambda # NoLambda => builders'[b].lambda = builders[b].lambda]_vars

(* C13: no recorded fragment of a builder is applied twice, and a fragment  *)
(* is applied only by a build that holds the function's handle.             *)
C13_FragmentsAtMostOnce ==
  /\ [](\A i, j \in DOMAIN calls :
          (/\ i < j /\ IsFrag(calls[i])
           /\ calls[i].b = calls[j].b /\ calls[i].op = calls[j].op) =>
             calls[i].i # calls[j].i)
  /\ [][Applied # <<>> => builders'[Applied[1].b].lambda # NoLambda]_vars

(* C14: a timer that fires on a builder whose build has failed does not run *)
(* createNodejsFunction again and adds nothing to the scope.                *)
C14_FailedBuildNotRetried ==
  [][(TimerStep /\ ghost[Head(timers)].failed >= 1) =>
       /\ ghost'[Head(timers)].provisionRuns = ghost[Head(timers)].provisionRuns
       /\ UNCHANGED <<functions, constructs, calls>>]_vars

(* C17: no step changes the resource name of a built builder.               *)
C17_NameImmutableAfterBuild ==
  [][\A b \in Created :
       builders[b].isBuilt => builders'[b].resourceName = builders[b].resourceName]_vars

---------------------------------------------------------------------------
\* A build that throws (SpecChain).

\* The kinds no fragment of which can fail in a builder's first build: their
\* construct ids carry the fragment's index.
EarlyKinds == {"sns", "sqs", "s3", "policy", "table", "rule"}
IsEarly(c) == c.op \in EarlyKinds

\* A step in which the first build() of b throws.
FirstBuildThrows(b) ==
  /\ ghost[b].provisionRuns = 0
  /\ ghost[b].failed = 0 /\ ghost'[b].failed = 1

(* C15: when a fragment fails in build(), the call throws (it returns       *)
(* nothing), the builder is left not built, the fragments before the        *)
(* failing one have been applied in order and stay applied with the         *)
(* function, and no later fragment and no route is applied.                 *)
C15_FailFastNoRollback ==
  [][\A b \in Created :
       FirstBuildThrows(b) =>
         /\ ~builders'[b].isBuilt
         /\ ghost'[b].buildReturns = ghost[b].buildReturns
         /\ IsPrefix(calls, calls') /\ IsPrefix(functions, functions')
         /\ constructs \subseteq constructs'
         /\ NewCalls # <<>> /\ NewCalls[1].op = "provision"
         /\ builders'[b].lambda = Len(functions')
         /\ IsPrefix(Applied, InKindOrder(builders[b], b, 1))
         /\ Len(Applied) < Len(InKindOrder(builders[b], b, 1))
         /\ SelectSeq(Applied, IsEarly) = SelectSeq(InKindOrder(builders[b], b, 1), IsEarly)
         /\ \A i \in DOMAIN NewCalls : NewCalls[i].op # "route"]_vars

\* A topic applied, then an MSK source that failed: the DynamoDB stream and
\* the route recorded with them were not applied, the builder is not built.
C15_Witness ==
  \E b \in Created :
    /\ ghost[b].failed >= 1 /\ ~builders[b].isBuilt
    /\ Ops(CallsOf(b)) = <<"provision", "sns">>
    /\ Len(builders[b].mskConfigs) = 1
    /\ Len(builders[b].dynamoStreamsConfigs) = 1
    /\ Truthy(builders[b].method) /\ Truthy(builders[b].path)
    /\ builders[b].lambda # NoLambda

---------------------------------------------------------------------------
\* Identity and route (SpecIdentity, SpecRoute).

(* C16: nothing is provisioned and nothing is added to a scope under an     *)
(* empty resource name: a build() of a builder whose resource name is empty *)
(* throws before it creates the log group or the function.                  *)
C16_IdentityValidatedFirst ==
  /\ \A f \in DOMAIN functions : functions[f].name # ""
  /\ \A c \in constructs : c.a # ""

RoutesOn(a, b) == SelectSeq(apis[a].routes, LAMBDA r : r.b = b)
NewRouteCalls == SelectSeq(NewCalls, LAMBDA c : c.op = "route")

---------------------------------------------------------------------------
\* Building and synthesis without build() (SpecSynth).

(* C19: every builder created by lambda() is eventually built though the    *)
(* caller never calls build(), and none is unbuilt when the beforeExit      *)
(* hook synthesizes its stack.                                              *)
C19_AutomaticBuilding ==
  /\ \A b \in Builders :
       [](b \in Created => <>(b \in Created /\ builders[b].isBuilt))
  /\ [](\A i \in DOMAIN synths : synths[i].auto => synths[i].unbuilt = {})

(* C20: when synth() is called by hand, every builder of the stack that     *)
(* chained calls had configured is built, and no function of such a builder *)
(* is added to the scope afterwards.                                        *)
C20_ManualSynthComplete ==
  \A i \in DOMAIN synths :
    ~synths[i].auto =>
      /\ synths[i].configured \cap synths[i].unbuilt = {}
      /\ \A f \in DOMAIN functions :
           functions[f].b \in synths[i].configured => f \in synths[i].functions


\* Does function f carry a shared layer / the layers l as its own ones?
SharedLayersOf(f) == {l \in Range(functions[f].layers) : l.shared}
LayersIn(s) == {l \in DOMAIN layers : layers[l].scope = s}
HasSharedLayer(s) == s \in DOMAIN stacks /\ stacks[s].layerReturns # {}

(* C21 (as stated): once setSharedLayer() has been called on a stack, every  *)
(* function provisioned in that stack carries the shared layer, whatever the *)
(* order of the call and the builds.                                         *)
C21_SharedLayerReachesAll ==
  \A s \in DOMAIN stacks :
    HasSharedLayer(s) =>
      \A f \in DOMAIN functions :
        functions[f].scope = s => SharedLayersOf(f) # {}

(* C21 (amended): a function is given its layers when its build() runs: the  *)
(* builder's own addLayers() layers, followed by the shared layer exactly    *)
(* when setSharedLayer() has been called before that build; a function that  *)
(* exists keeps the layers it was provisioned with.                          *)
C21_SharedLayerOnLaterBuilds ==
  [][\A f \in DOMAIN functions' :
       IF f \in DOMAIN functions
       THEN functions'[f].layers = functions[f].layers
       ELSE functions'[f].layers =
              builders[functions'[f].b].layers \o
                (IF sharedLayer # 0 THEN <<SharedLayerHandle(sharedLayer)>> ELSE <<>>)]_vars

\* A function with a layer of its own and the shared one, and a function that
\* was built before the shared layer was set.
C21_Witness ==
  /\ \E f \in DOMAIN functions :
       functions[f].layers = <<OwnLayer(1), SharedLayerHandle(1)>>
  /\ \E f \in DOMAIN functions :
       HasSharedLayer(functions[f].scope) /\ SharedLayersOf(f) = {}

(* C22: for every stack on which setSharedLayer() was called, exactly one    *)
(* layer exists in that stack, every call on the stack returned it, and the  *)
(* functions of the stack carry no shared layer of another stack.            *)
C22_OneSharedLayerPerStack ==
  \A s \in DOMAIN stacks :
    HasSharedLayer(s) =>
      /\ Cardinality(LayersIn(s)) = 1
      /\ stacks[s].layerReturns = LayersIn(s)
      /\ \A f \in DOMAIN functions :
           functions[f].scope = s =>
             \A l \in SharedLayersOf(f) : l.id \in LayersIn(s)


\* The functions a step provisions, and the sizing parameters.
NewFunctions == DOMAIN functions' \ DOMAIN functions
SizingKeys == DOMAIN BuiltIn

\* The defaultLambdaOptions passed to the constructor of stack s, if any.
OptionsGivenTo(s) ==
  IF stacks[s].given.given /\ "defaultLambdaOptions" \in DOMAIN stacks[s].given.value
  THEN stacks[s].given.value["defaultLambdaOptions"] ELSE Empty

\* A map folded over a sequence of maps, each merged over what precedes it.
RECURSIVE Merged(_, _)
Merged(base, maps) ==
  IF maps = <<>> THEN base
  ELSE Merged(Spread(base, Head(maps)), Tail(maps))

(* C23: a function is provisioned, for every sizing parameter, with the      *)
(* argument of the builder's latest setter call if there was one, otherwise  *)
(* with the value of the defaultLambdaOptions its stack was constructed with *)
(* if that gives one, otherwise with the built-in default; its environment   *)
(* is STAGE, then the stack's default variables, then the environment()      *)
(* calls, each merged over the previous ones.                                *)
C23_DefaultOptionsPrecedence ==
  [][\A f \in NewFunctions :
       LET b == functions'[f].b
           options == OptionsGivenTo(builders[b].scope)
       IN  /\ \A k \in SizingKeys :
                functions'[f][k] =
                  OrElse(ghost[b].sized, k, OrElse(options, k, BuiltIn[k]))
           /\ functions'[f].environment =
                Merged(Spread([k \in {"STAGE"} |-> Stage],
                              OrElse(options, "environment", Empty)),
                       ghost[b].envCalls)]_vars

\* The values a parameter may default to: the built-in one and those of the
\* defaultLambdaOptions some stack of the process was constructed with.
DefaultsFor(k) ==
  {BuiltIn[k]} \cup
  {OptionsGivenTo(s)[k] : s \in {t \in DOMAIN stacks : k \in DOMAIN OptionsGivenTo(t)}}

\* A call made by the caller on a builder nothing has been called on so far
\* that is not a build() returning a handle.
FirstCallIsGetLambda(b) ==
  /\ b \notin held
  /\ ghost[b].explicitBuilds = 0
  /\ ghost[b].provisionRuns = 0
  /\ ghost'[b].explicitBuilds = 1
  /\ ghost'[b].buildReturns = {}

(* C24: getLambda() as the first call on a builder runs build() within the   *)
(* call: the function exists and the builder is built when it returns, no    *)
(* timer is scheduled, the value returned is the new function, and every     *)
(* sizing parameter of that function has a default value.                    *)
C24_GetLambdaBuildsAtOnce ==
  [][\A b \in Created :
       FirstCallIsGetLambda(b) =>
         /\ NewFunctions = {Len(functions')}
         /\ functions'[Len(functions')].b = b
         /\ builders'[b].isBuilt
         /\ builders'[b].lambda = Len(functions')
         /\ ghost'[b].getLambdaReturns = {Len(functions')}
         /\ timers' = timers
         /\ \A k \in SizingKeys : functions'[Len(functions')][k] \in DefaultsFor(k)]_vars

\* getLambda() was the only call made on a builder, and it returned a
\* function with the built-in sizing.
C24_Witness ==
  \E b \in Created :
    /\ b \notin held
    /\ ghost[b].buildReturns = {}
    /\ ghost[b].getLambdaReturns = {builders[b].lambda}
    /\ builders[b].lambda # NoLambda
    /\ \A k \in SizingKeys : functions[builders[b].lambda][k] = BuiltIn[k]

(* C26: a stack constructed without defaultTags (or without any settings)    *)
(* starts with the stack tags and resource tags {ProjectName: stackId}; one  *)
(* constructed with defaultTags starts with exactly those.                   *)
C26_AutomaticProjectNameTag ==
  \A s \in DOMAIN stacks :
    LET tagsGiven == stacks[s].given.given /\ "defaultTags" \in DOMAIN stacks[s].given.value
        expected == IF tagsGiven THEN stacks[s].given.value["defaultTags"]
                    ELSE {<<"ProjectName", stacks[s].stackId>>}
    IN  stacks[s].stackTags = expected /\ stacks[s].resourceTags = expected


(* C27: in a fluent chain every call is made on the intercepted object:      *)
(* a builder on which a chainable setter has been called through the Proxy   *)
(* is never held as its raw target, so each later call of the chain goes     *)
(* through the Proxy too.                                                    *)
C27_EveryCallIntercepted ==
  \A b \in Created : ghost[b].proxyCalls >= 1 => b \notin held

\* The builder fields that build() and the Proxy's wrapper set.
BuildFields == {"isBuilt", "lambda", "isAutoBuilding"}
SameBut(bd1, bd2, fields) ==
  \A k \in DOMAIN bd1 : k \notin fields => bd1[k] = bd2[k]

(* C25: an addRole() call that throws 'Either role or roleArn must be        *)
(* provided to addRole' records no role, schedules no timer, returns nothing *)
(* and provisions nothing: of the builder only the wrapper's flag may        *)
(* differ after it.                                                          *)
C25_AddRoleThrows ==
  [][\A b \in Created :
       ghost'[b].addRoleErrors # ghost[b].addRoleErrors =>
         /\ builders'[b].iamRole = builders[b].iamRole
         /\ SameBut(builders[b], builders'[b], {"isAutoBuilding"})
         /\ timers' = timers
         /\ ghost'[b].scheduled = ghost[b].scheduled
         /\ held' = held
         /\ UNCHANGED <<functions, constructs, calls, sharedApi, apis>>]_vars

\* addRole({}) has thrown on a builder that has no role, no timer and no
\* finalize scheduled so far.
C25_Witness ==
  \E b \in Created :
    /\ ghost[b].addRoleErrors >= 1
    /\ builders[b].iamRole = Undefined
    /\ ghost[b].scheduled = 0
    /\ timers = <<>>

(* C28: a step schedules a timer only for a builder that is not built, in a  *)
(* call made through the Proxy that returned the builder and ran no build:   *)
(* build(), getLambda(), an addRole() that throws and every call on a built  *)
(* builder leave the timer queue as it is.                                   *)
C28_ScheduledOnlyWhenUnbuilt ==
  [][/\ Len(timers') > Len(timers) =>
          \E b \in Created :
            /\ timers' = Append(timers, b)
            /\ ~builders[b].isBuilt /\ ~builders'[b].isBuilt
            /\ ~builders[b].isAutoBuilding
            /\ ghost'[b].proxyCalls >= 1
            /\ b \in held'
            /\ ghost'[b].explicitBuilds = ghost[b].explicitBuilds
            /\ ghost'[b].addRoleErrors = ghost[b].addRoleErrors
            /\ UNCHANGED <<functions, calls>>
     /\ \A b \in Created :
          (builders[b].isBuilt \/ ghost'[b].explicitBuilds # ghost[b].explicitBuilds
             \/ ghost'[b].addRoleErrors # ghost[b].addRoleErrors)
            => b \notin Range(SubSeq(timers', Len(timers) + 1, Len(timers')))]_vars

\* A setter was called through the Proxy, with the flag clear, on a builder
\* that was built (it was renamed after its function was provisioned), and
\* nothing is or was scheduled.
C28_Witness ==
  \E b \in Created :
    /\ builders[b].isBuilt
    /\ functions[builders[b].lambda].name # builders[b].resourceName
    /\ ghost[b].proxyCalls >= 1
    /\ ghost[b].addRoleErrors = 0
    /\ ghost[b].scheduled = 0
    /\ timers = <<>>

(* C29: a call through the Proxy whose body calls back into the Proxy        *)
(* schedules at most one timer, the outer call's: exactly one when the       *)
(* builder is not built and the flag was not set, none otherwise; and no     *)
(* step at all adds more than one timer.                                     *)
C29_ReentrancyGuard ==
  [][/\ Len(timers') <= Len(timers) + 1
     /\ \A b \in Created :
          ghost'[b].nested # ghost[b].nested =>
            /\ timers' = IF ~builders[b].isBuilt /\ ~builders[b].isAutoBuilding
                         THEN Append(timers, b) ELSE timers
            /\ builders'[b].isAutoBuilding = builders[b].isAutoBuilding]_vars

\* A nested call was made on an unbuilt builder, whose only scheduled timer
\* is still pending; the nested name() has taken effect.
C29_Witness ==
  \E b \in Created :
    /\ ghost[b].nested >= 1
    /\ ghost[b].scheduled = 1
    /\ ghost[b].proxyCalls = 1
    /\ timers = <<b>>
    /\ builders[b].resourceName = "g"
    /\ ~builders[b].isBuilt

(* C30: once a builder is built no step changes its function, the fragments  *)
(* applied for it or its routes, and none runs createNodejsFunction for it   *)
(* again; a step that changes what the builder has recorded (a configuration *)
(* call) leaves it built, schedules no timer and changes no function, no     *)
(* collaborator call and no shared API.                                      *)
C30_RecordingAfterBuild ==
  [][\A b \in Created :
       builders[b].isBuilt =>
         /\ builders'[b].isBuilt
         /\ builders'[b].lambda = builders[b].lambda
         /\ functions'[builders[b].lambda] = functions[builders[b].lambda]
         /\ ghost'[b].provisionRuns = ghost[b].provisionRuns
         /\ SelectSeq(calls', LAMBDA c : c.b = b) = SelectSeq(calls, LAMBDA c : c.b = b)
         /\ \A a \in DOMAIN apis' :
              SelectSeq(apis'[a].routes, LAMBDA r : r.b = b) =
                IF a \in DOMAIN apis THEN RoutesOn(a, b) ELSE <<>>
         /\ ~SameBut(builders[b], builders'[b], BuildFields) =>
              /\ timers' = timers
              /\ UNCHANGED <<functions, calls, sharedApi, apis>>]_vars

\* A built builder on which a route, a trigger, a name and a memory size were
\* recorded after the build: one function, under the old name and size, no
\* route, no API, no timer.
C30_Witness ==
  \E b \in Created :
    /\ builders[b].isBuilt
    /\ builders[b].method = "GET"
    /\ builders[b].snsConfigs # <<>>
    /\ builders[b].memorySize = 512
    /\ builders[b].resourceName = "g"
    /\ functions[builders[b].lambda].name = "f"
    /\ functions[builders[b].lambda].memorySize = 256
    /\ Len(functions) = 1
    /\ apis = <<>>
    /\ timers = <<>>


\* The fragment sequences of a builder, by kind.
FragsOf(bd) == [k \in FragKinds |-> Configs(k, bd)]

(* C31: before build, a trigger or permission call only appends: a step that *)
(* changes the fragments recorded on a builder that is not built appends     *)
(* exactly one fragment at the end of the sequence of one kind, and leaves   *)
(* unchanged the fragments already recorded of every kind, the builder's     *)
(* function handle and built flag, the shared API and layer, the functions,  *)
(* the construct tree, the collaborator calls and every other builder.       *)
C31_AppendOnly ==
  [][\A b \in Created :
       (~builders[b].isBuilt /\ FragsOf(builders'[b]) # FragsOf(builders[b]))
       => /\ \E k \in FragKinds :
               /\ Len(Configs(k, builders'[b])) = Len(Configs(k, builders[b])) + 1
               /\ IsPrefix(Configs(k, builders[b]), Configs(k, builders'[b]))
               /\ \A j \in FragKinds \ {k} :
                    Configs(j, builders'[b]) = Configs(j, builders[b])
          /\ builders'[b].lambda = builders[b].lambda
          /\ builders'[b].isBuilt = builders[b].isBuilt
          /\ UNCHANGED <<sharedApi, apis, sharedLayer, layers, functions, constructs, calls>>
          /\ \A c \in Created \ {b} : builders'[c] = builders[c]]_vars

\* Two topics recorded on the first builder, not built, while the second
\* builder is built, routed on the shared API, and has a topic of its own.
C31_Witness ==
  /\ Created = {1, 2}
  /\ ~builders[1].isBuilt /\ builders[1].lambda = NoLambda
  /\ builders[1].snsConfigs = <<"d1", "d2">>
  /\ builders[2].isBuilt /\ builders[2].snsConfigs = <<"d1">>
  /\ sharedApi # 0


\* The parameters a function is provisioned with that have a setter.
SettableKeys == {"memorySize", "timeout", "runtime", "architecture", "name"}

\* The builder's field behind each of them.
FieldOf(bd, k) ==
  CASE k = "memorySize" -> bd.memorySize
    [] k = "timeout" -> bd.timeoutDuration
    [] k = "runtime" -> bd.runtimeValue
    [] k = "architecture" -> bd.architectureValue
    [] k = "name" -> bd.resourceName

(* C32: the memory, timeout, runtime, architecture, name and environment a   *)
(* function is provisioned with are the builder's values when its build()    *)
(* runs: for each parameter the argument of the latest setter call made      *)
(* before that moment, whether the call was made before or after the one     *)
(* that scheduled the finalize; for each environment key the value of the    *)
(* latest environment() call that gave the key.                              *)
C32_SizingReadAtBuild ==
  [][\A f \in NewFunctions :
       LET b == functions'[f].b
       IN  /\ \A k \in SettableKeys : functions'[f][k] = FieldOf(builders[b], k)
           /\ functions'[f].environment = builders[b].environmentVars
           /\ \A k \in DOMAIN ghost[b].sized : functions'[f][k] = ghost[b].sized[k]
           /\ \A k \in EnvKeys :
                SetBy(b, k) # {} =>
                  functions'[f].environment[k] = ghost[b].envCalls[LastSetBy(b, k)][k]]_vars

\* A timer built the function; the calls made after the one that scheduled
\* it (one of them on the raw target) are reflected, the latest
\* environment() call has won.
C32_Witness ==
  /\ 1 \in Created /\ 1 \in held
  /\ ghost[1].explicitBuilds = 0 /\ ghost[1].fired >= 1
  /\ ghost[1].proxyCalls = 1
  /\ builders[1].lambda # NoLambda
  /\ ghost[1].envCalls = <<[A |-> "1"], [A |-> "2"]>>
  /\ DOMAIN ghost[1].sized = {"memorySize", "name"}
  /\ functions[builders[1].lambda].environment["A"] = "2"
  /\ functions[builders[1].lambda].memorySize = 1024
  /\ functions[builders[1].lambda].name = "g"


\* The steps in which the body of build() threw on builder b, and those in
\* which a timer was scheduled.
BuildThrew(b) == ghost'[b].failed # ghost[b].failed
Schedules == Len(timers') > Len(timers)

(* C33: the errors of build() (of provisioning, of applying a fragment, of   *)
(* registering the route) surface where build() runs.  A chainable call that *)
(* schedules a timer returns the builder and runs no part of build(): no     *)
(* function, construct, collaborator call or API changes and no error is     *)
(* raised in that step.  A step in which build() throws is the callback of   *)
(* the timer at the head of the queue, or a build() or getLambda() call made *)
(* by the caller, which changes no configuration and schedules nothing.      *)
C33_DeferredErrorsSurfaceLater ==
  [][/\ Schedules =>
          LET b == timers'[Len(timers')]
          IN  /\ timers' = Append(timers, b)
              /\ b \in held'
              /\ ghost'[b].failed = ghost[b].failed
              /\ ghost'[b].provisionRuns = ghost[b].provisionRuns
              /\ ghost'[b].addRoleErrors = ghost[b].addRoleErrors
              /\ UNCHANGED <<functions, constructs, calls, apis, sharedApi>>
     /\ \A b \in Created :
          BuildThrew(b) =>
            /\ SameBut(builders[b], builders'[b], BuildFields)
            /\ held' = held
            /\ \/ timers # <<>> /\ Head(timers) = b /\ timers' = Tail(timers)
                  /\ ghost'[b].fired = Bump(ghost[b].fired)
                  /\ ghost'[b].explicitBuilds = ghost[b].explicitBuilds
               \/ timers' = timers
                  /\ ghost'[b].explicitBuilds = Bump(ghost[b].explicitBuilds)
                  /\ ghost'[b].fired = ghost[b].fired]_vars

\* A chain recorded a malformed Kafka trigger and returned; the timer it
\* scheduled ran later and its build() threw; the caller never called build().
C33_Witness ==
  /\ 1 \in Created /\ 1 \in held
  /\ BadMsk \in Range(builders[1].mskConfigs)
  /\ ghost[1].explicitBuilds = 0
  /\ ghost[1].scheduled >= 1 /\ ghost[1].fired >= 1
  /\ ghost[1].failed >= 1
  /\ ~builders[1].isBuilt


\* The builders whose build() ran its body in the step.
Building == {b \in Created : ghost'[b].provisionRuns # ghost[b].provisionRuns}

(* C34: builds never interleave.  Every step runs the build() of at most one *)
(* builder, from its first collaborator call to its last, and takes at most  *)
(* one timer off the queue, the one at its head; so the test and the         *)
(* assignment of the shared API belong to one build, and however the pending *)
(* timers and the explicit builds are ordered the process creates at most    *)
(* one shared API, on which every route is registered.                       *)
C34_BuildsNeverInterleave ==
  /\ [](/\ Len(apis) <= 1
        /\ Len(SelectSeq(calls, LAMBDA c : c.op = "createApi")) <= 1
        /\ \A i \in DOMAIN calls : calls[i].op = "route" => calls[i].i = 1
        /\ sharedApi = Len(apis))
  /\ [][/\ Cardinality(Building) <= 1
        /\ \A i \in DOMAIN NewCalls : NewCalls[i].b \in Building
        /\ IsPrefix(calls, calls')
        /\ timers' # timers =>
             \/ \E b \in Created : timers' = Append(timers, b)
             \/ timers # <<>> /\ timers' = Tail(timers)
        /\ Len(apis') > Len(apis) =>
             /\ sharedApi = 0
             /\ sharedApi' = Len(apis')
             /\ Len(apis') = Len(apis) + 1]_vars

\* Two builders of one stack, each given a route by a chain and each built by
\* its timer, the second builder's first: one API, created by the second
\* builder's build, carries both routes.
C34_Witness ==
  /\ Created = {1, 2}
  /\ builders[1].scope = builders[2].scope
  /\ \A b \in Created :
       /\ builders[b].isBuilt
       /\ ghost[b].explicitBuilds = 0 /\ ghost[b].fired = 1 /\ ghost[b].failed = 0
  /\ Len(apis) = 1 /\ Len(apis[1].routes) = 2
  /\ apis[1].routes[1].b = 2 /\ apis[1].routes[2].b = 1


\* Are the elements of the sequence q pairwise different?
Distinct(q) == \A i, j \in DOMAIN q : i # j => q[i] # q[j]

(* C35: fragments of one kind coexist: the first build() of a builder on     *)
(* which the fragments of each kind have pairwise different targets applies  *)
(* every recorded fragment and leaves the builder built, whatever the kinds  *)
(* and however many fragments of a kind there are.                           *)
C35_FragmentsCoexist ==
  [][\A b \in Building :
       (/\ ghost[b].provisionRuns = 0
        /\ \A k \in FragKinds : Distinct(Configs(k, builders[b])))
       => /\ builders'[b].isBuilt
          /\ Len(Applied) = NFrags(builders[b])]_vars


\* The createApi calls a step makes.
NewCreateApiCalls == SelectSeq(NewCalls, LAMBDA c : c.op = "createApi")

(* C36: a build() that completes registers a route if and only if a routing  *)
(* method was called on the builder before it.  With a routing call,         *)
(* whatever path it was given, the build registers exactly one route, for    *)
(* this builder, on the shared API; without one, it neither creates nor      *)
(* changes the shared API.                                                   *)
C36_RouteIffRoutingCall ==
  [][\A b \in Created :
       Finishes(b) =>
         IF ghost[b].lastRoute # <<>>
         THEN /\ Len(NewRouteCalls) = 1
              /\ NewRouteCalls[1].b = b
              /\ sharedApi' \in DOMAIN apis'
              /\ Len(SelectSeq(apis'[sharedApi'].routes, LAMBDA r : r.b = b)) = 1
         ELSE /\ UNCHANGED <<sharedApi, apis>>
              /\ NewRouteCalls = <<>>
              /\ NewCreateApiCalls = <<>>]_vars


(* C37: the re-entrancy flag is released after every dispatch: between the   *)
(* calls made on a builder isAutoBuilding is false, also after a call whose  *)
(* body threw; and a chainable call made through the Proxy on a builder that *)
(* is not built schedules a timer.                                           *)
C37_FlagReleased ==
  /\ [](\A b \in Created : ~builders[b].isAutoBuilding)
  /\ [][\A b \in Created :
          (/\ ghost'[b].proxyCalls # ghost[b].proxyCalls
           /\ ~builders[b].isBuilt
           /\ b \in held' \ held)
          => timers' = Append(timers, b)]_vars


(* C38: settings do not leak between stacks: a function of a stack whose     *)
(* constructor was given no defaultLambdaOptions is provisioned, for every   *)
(* sizing parameter its builder's setters were not called for, with the      *)
(* built-in default, and its environment holds only STAGE and what its       *)
(* builder's environment() calls passed, whatever settings the other stacks  *)
(* of the process were constructed with.                                     *)
C38_SettingsDoNotLeak ==
  [][\A f \in NewFunctions :
       LET b == functions'[f].b
       IN  OptionsGivenTo(builders[b].scope) = Empty =>
             /\ \A k \in SizingKeys \ DOMAIN ghost[b].sized :
                  functions'[f][k] = BuiltIn[k]
             /\ DOMAIN functions'[f].environment =
                  {"STAGE"} \cup UNION {DOMAIN ghost[b].envCalls[i] :
                                          i \in DOMAIN ghost[b].envCalls}]_vars


\* Has another builder provisioned, in b's scope, a function of the identity
\* builder b has now?
IdentityTaken(b) ==
  \E f \in DOMAIN functions :
    /\ functions[f].b # b
    /\ functions[f].scope = builders[b].scope
    /\ functions[f].name = builders[b].resourceName

(* C39: a duplicate identity is an error confined to the second builder:     *)
(* when build() runs on a builder whose identity another builder of the      *)
(* scope has already provisioned a function under, it throws, the builder    *)
(* stays not built and without a function, and the functions, the            *)
(* constructs, the fragments applied, the shared API with its routes and     *)
(* every other builder are as before.                                        *)
C39_DuplicateIdentityConfined ==
  [][\A b \in Building :
       IdentityTaken(b) =>
         /\ ghost'[b].failed = Bump(ghost[b].failed)
         /\ ghost'[b].buildReturns = ghost[b].buildReturns
         /\ ~builders'[b].isBuilt
         /\ builders'[b].lambda = NoLambda
         /\ UNCHANGED <<functions, constructs, calls, apis, sharedApi>>
         /\ \A c \in Created \ {b} : builders'[c] = builders[c]]_vars

\* The first builder is built, its topic subscribed and its route registered;
\* the build of the second, of the same identity, with a route and a topic of
\* its own, has thrown and left nothing.
C39_Witness ==
  /\ Created = {1, 2}
  /\ builders[1].resourceName = builders[2].resourceName
  /\ builders[1].isBuilt /\ FunctionsOf(1) # {}
  /\ Len(CallsOf(1)) = 4
  /\ ~builders[2].isBuilt /\ ghost[2].failed >= 1
  /\ builders[2].snsConfigs # <<>> /\ ~Unrouted(2)
  /\ FunctionsOf(2) = {} /\ CallsOf(2) = <<>>


\* Is every timer that was scheduled for a builder accounted for by a run of
\* its callback?
Drained == \A b \in Created : ghost[b].fired = ghost[b].scheduled

=============================================================================
